---- MODULE Spec2Model ----
(***************************************************************************)
(* AluhaSOC: the durable message bus (analysis/message_bus.py), the        *)
(* analysis stage that consumes from it (analysis/run_analysis.py) and the *)
(* collection scheduler with its connectors (agents/*.py).                 *)
(*                                                                         *)
(* Python values are modelled as follows.  A dict is a sequence of         *)
(* <<key, value>> pairs in insertion order with distinct keys; every leaf  *)
(* value is a string; None is the string "None".  An instant of the wall   *)
(* clock is a natural number and datetime.isoformat() turns it into text.  *)
(***************************************************************************)
EXTENDS Integers, Sequences, FiniteSets, TLC

\* ------------------------------------------------------------------ bounds
MaxTime == 1
MaxMsgs == 1
MaxDeliveries == 2
MaxRestarts == 1

Times == 0..MaxTime
\* a message already on the durable raw-events queue when the program starts
\* has the id Backlog; messages enqueued during the run have 1..MaxMsgs
Backlog == MaxMsgs + 1

MsgIds == 1..Backlog
None == "None"

\* ------------------------------------------------------------ python dicts
DictHas(d, k) == \E i \in 1..Len(d) : d[i][1] = k

DictGet(d, k, default) ==
    IF DictHas(d, k) THEN d[CHOOSE i \in 1..Len(d) : d[i][1] = k][2] ELSE default

\* d[k] = v: replaces the value in place when the key exists, appends otherwise
DictSet(d, k, v) ==
    IF DictHas(d, k)
    THEN [i \in 1..Len(d) |-> IF d[i][1] = k THEN <<k, v>> ELSE d[i]]
    ELSE Append(d, <<k, v>>)

DictKeys(d) == {d[i][1] : i \in 1..Len(d)}

isoformat(t) == "T" \o ToString(t)

\* json.dumps: a dict becomes the text of a JSON object
json_dumps(message) == [json |-> "object", members |-> message]

\* json.loads: an object's text becomes a dict, an array's a list; anything
\* else is not JSON and raises
json_loads(body) ==
    IF body.json = "object" THEN [raised |-> FALSE, type |-> "dict", value |-> body.members]
    ELSE IF body.json = "array" THEN [raised |-> FALSE, type |-> "list", value |-> <<>>]
    ELSE [raised |-> TRUE, type |-> "none", value |-> <<>>]

\* --------------------------------------------------------------- MessageBus
queues ==
    [logs |-> "security_logs", analysis |-> "security_analysis",
     alerts |-> "security_alerts", investigations |-> "security_investigations"]

QueueValues == {queues[k] : k \in DOMAIN queues}

\* what callers pass as a queue name: declared names, a key of the table
\* (which is not a declared name), and an unknown name
QueueArgs == {queues.logs, queues.alerts, "logs", "bogus"}

delivery_mode == 2
\* a basic_qos that lets a second delivery out before the first is settled
prefetch_two == 1 + 1

prefetch_count == 1

\* _setup_queues: every declared queue is declared durable on the broker
_setup_queues == [q \in QueueValues |-> TRUE]

\* publish(queue, message) at instant t; `up` says whether basic_publish
\* reaches the broker.  The result carries the exception raised ("none" when
\* the call returns), the caller's dict as the call leaves it, and the
\* message handed to the broker (sent = FALSE: nothing was enqueued).
NoBody == [json |-> "invalid", members |-> <<>>]

publish_stamp_first(queue, message, t, up) ==
    LET stamped == DictSet(message, "timestamp", isoformat(t))
    IN  IF queue \notin QueueValues
        THEN [raised |-> "ValueError", message |-> stamped, sent |-> FALSE,
              body |-> NoBody, persistent |-> FALSE]
        ELSE [raised |-> IF up THEN "none" ELSE "AMQPError", message |-> stamped,
              sent |-> up, body |-> IF up THEN json_dumps(stamped) ELSE NoBody,
              persistent |-> up /\ delivery_mode = 2]

publish_transient(queue, message, t, up) ==
    LET stamped == DictSet(message, "timestamp", isoformat(t))
    IN  IF queue \notin QueueValues
        THEN [raised |-> "ValueError", message |-> message, sent |-> FALSE,
              body |-> NoBody, persistent |-> FALSE]
        ELSE [raised |-> IF up THEN "none" ELSE "AMQPError", message |-> stamped,
              sent |-> up, body |-> IF up THEN json_dumps(stamped) ELSE NoBody,
              persistent |-> FALSE]

\* a publish whose except clause does not re-raise
publish_swallow(queue, message, t, up) ==
    IF queue \notin QueueValues
    THEN [raised |-> "none", message |-> message, sent |-> FALSE,
          body |-> NoBody, persistent |-> FALSE]
    ELSE LET stamped == DictSet(message, "timestamp", isoformat(t))
         IN  [raised |-> "none", message |-> stamped, sent |-> up,
              body |-> IF up THEN json_dumps(stamped) ELSE NoBody,
              persistent |-> up /\ delivery_mode = 2]

publish(queue, message, t, up) ==
    IF queue \notin QueueValues
    THEN [raised |-> "ValueError", message |-> message, sent |-> FALSE,
          body |-> NoBody, persistent |-> FALSE]
    ELSE LET stamped == DictSet(message, "timestamp", isoformat(t))
         IN  IF ~up
             THEN [raised |-> "AMQPError", message |-> stamped, sent |-> FALSE,
                   body |-> NoBody, persistent |-> FALSE]
             ELSE [raised |-> "none", message |-> stamped, sent |-> TRUE,
                   body |-> json_dumps(stamped), persistent |-> delivery_mode = 2]

\* consume(queue, callback) up to start_consuming: the queue check, then
\* basic_qos and basic_consume, which raise when the connection is gone
\* (up = FALSE); the except clause re-raises
consume(queue, up) ==
    IF queue \notin QueueValues
    THEN [raised |-> "ValueError", registered |-> FALSE]
    ELSE IF ~up
    THEN [raised |-> "AMQPError", registered |-> FALSE]
    ELSE [raised |-> "none", registered |-> TRUE]

\* ------------------------------------------------------------ analysis stage
\* what the enrichment step yields for an event: a severity the parser read
\* from the model's text, or a failure inside analyze_security_event
LLMOutcomes == {"critical", "error"}

Fallback ==
    [severity |-> "unknown", impact |-> "Error during analysis",
     recommendations |-> <<"Investigate analysis error">>, iocs |-> <<>>]

\* analyze_security_event: formatting a payload that is no dict raises inside
\* the try, as does a failing enrichment call; both yield the fallback
analyze_unguarded(event, llm) ==
    IF event.type # "dict" \/ llm = "error"
    THEN [exception |-> "Exception"]
    ELSE [severity |-> llm, impact |-> "impact", recommendations |-> <<"r1">>,
          iocs |-> <<>>]

analyze_security_event(event, llm) ==
    IF event.type # "dict" \/ llm = "error"
    THEN Fallback
    ELSE [severity |-> llm, impact |-> "impact", recommendations |-> <<"r1">>,
          iocs |-> <<>>]

NoPublish ==
    [raised |-> "none", message |-> <<>>, sent |-> FALSE, body |-> NoBody,
     persistent |-> FALSE]

\* the alert condition of process_event: a literal membership test
should_alert_medium(severity) == severity \in {"critical", "high", "medium"}

\* an alert condition that ignores the case of the first letter
should_alert_anycase(severity) ==
    severity \in {"critical", "high", "Critical", "High"}

should_alert(severity) == severity \in {"critical", "high"}

\* process_event(event): analysis, alert when critical/high, then the publish
\* of the result; the except clause swallows whatever any step raises, so
\* the call always returns normally.  alerts: the arguments of the send_alert
\* calls made; steps: the calls made, in program order
process_event(event, llm, t, up) ==
    LET analysis == analyze_security_event(event, llm)
        alert == [severity |-> analysis.severity,
                  source |-> DictGet(event.value, "source", "Unknown"),
                  impact |-> analysis.impact,
                  recommendations |-> analysis.recommendations]
    IN  IF event.type # "dict"
        THEN [raised |-> FALSE, alerted |-> FALSE, pub |-> NoPublish,
              alerts |-> <<>>, steps |-> <<"analyze">>]
        ELSE [raised |-> FALSE,
              alerted |-> should_alert(analysis.severity),
              pub |-> publish("security_analysis",
                              << <<"event_id", DictGet(event.value, "id", None)>>,
                                 <<"analysis", analysis>> >>, t, up),
              alerts |-> IF should_alert(analysis.severity)
                         THEN <<alert>> ELSE <<>>,
              steps |-> <<"analyze">> \o
                        (IF should_alert(analysis.severity)
                         THEN <<"send_alert">> ELSE <<>>) \o <<"publish">>]

\* consume._callback(body): decode, call the handler, ack on normal return,
\* nack (requeue is basic_nack's default) on any exception
\* a _callback that rejects without requeue (a dead-letter path)
callback_no_requeue(body, llm, t, up) ==
    LET d == json_loads(body)
    IN  IF d.raised
        THEN [verdict |-> "nack", requeue |-> FALSE, handled |-> FALSE, payload |-> d,
              alerted |-> FALSE, pub |-> NoPublish]
        ELSE LET r == process_event(d, llm, t, up)
             IN  [verdict |-> "ack", requeue |-> TRUE, handled |-> TRUE, payload |-> d,
                  alerted |-> r.alerted, pub |-> r.pub]

\* a _callback without its try/except: a failing decode leaves it as raised
callback_unguarded(body, llm, t, up) ==
    LET d == json_loads(body)
    IN  IF d.raised
        THEN [verdict |-> "raise", requeue |-> TRUE, handled |-> FALSE, payload |-> d,
              alerted |-> FALSE, pub |-> NoPublish]
        ELSE LET r == process_event(d, llm, t, up)
             IN  [verdict |-> "ack", requeue |-> TRUE, handled |-> TRUE, payload |-> d,
                  alerted |-> r.alerted, pub |-> r.pub]

callback_always_ack(body, llm, t, up) ==
    LET d == json_loads(body)
    IN  IF d.raised
        THEN [verdict |-> "ack", requeue |-> TRUE, handled |-> FALSE, payload |-> d,
              alerted |-> FALSE, pub |-> NoPublish]
        ELSE LET r == process_event(d, llm, t, up)
             IN  [verdict |-> "ack", requeue |-> TRUE, handled |-> TRUE, payload |-> d,
                  alerted |-> r.alerted, pub |-> r.pub]

_callback(body, llm, t, up) ==
    LET d == json_loads(body)
    IN  IF d.raised
        THEN [verdict |-> "nack", requeue |-> TRUE, handled |-> FALSE, payload |-> d,
              alerted |-> FALSE, pub |-> NoPublish]
        ELSE LET r == process_event(d, llm, t, up)
             IN  [verdict |-> IF r.raised THEN "nack" ELSE "ack", requeue |-> TRUE,
                  handled |-> TRUE, payload |-> d,
                  alerted |-> r.alerted, pub |-> r.pub]

\* ------------------------------------------------------------- connectors
\* the connector classes; AgentRunner visits its agents in registry order
AgentOrder == <<"splunk", "wazuh", "aws">>

Agents == {AgentOrder[k] : k \in 1..Len(AgentOrder)}

MaxBatch == 3

\* self.last_run = None
NoneTime == -1

\* A fetched batch is a sequence of records.  A record is known by its
\* position in the upstream answer (rid); `ok` says whether its translation
\* succeeds.  form: "native" (untranslated), "event" (a Canonical Event),
\* "empty" (the dict {}).
Record(k, ok, form) == [rid |-> k, ok |-> ok, form |-> form]

RECURSIVE BoolSeqs(_)
BoolSeqs(n) ==
    IF n = 0 THEN {<<>>}
    ELSE BoolSeqs(n - 1) \cup
         {Append(b, x) : b \in {c \in BoolSeqs(n - 1) : Len(c) = n - 1}, x \in BOOLEAN}

\* what the source holds for a window: the ok flag of each record
Upstream == BoolSeqs(MaxBatch)

\* connect(): the whole body is inside try/except, so it returns True/False
\* and never raises; `ok` says whether the source answers. Splunk keeps
\* self.service only when Service(...) succeeded; Wazuh creates a fresh
\* requests.Session before the test request ("idle" when that request
\* failed); AWS fills self.clients
connect(kind, ok, session) ==
    [raised |-> FALSE,
     result |-> ok,
     session |-> IF ok THEN "open" ELSE IF kind = "wazuh" THEN "idle" ELSE session]

\* BaseLogAgent.run, lines 53-57: `if not self.connect(): raise
\* ConnectionError(...)` jumps over fetch_logs to the except/finally clauses
connect_unchecked(result) == "fetch"

after_connect(result) == IF result THEN "fetch" ELSE "disconnect"

\* disconnect(): `if self.service: self.service.logout()` (Splunk),
\* `if self.session: self.session.close()` (Wazuh), clients.clear() (AWS);
\* `fails` says that the release of a live session raises
disconnect_unguarded(kind, session, fails) ==
    [raised |-> kind # "aws" /\ (session = "none" \/ (session = "open" /\ fails)),
     session |-> IF kind = "aws" \/ session = "none" THEN "none" ELSE "closed"]

disconnect(kind, session, fails) ==
    [raised |-> session = "open" /\ fails /\ kind # "aws",
     session |-> IF kind = "aws" THEN "none"
                 ELSE IF session = "none" THEN "none" ELSE "closed"]

\* AWS translates inside its fetch loop, within one try: the records before
\* the first one that fails are kept, the rest of the answer is lost
RECURSIVE aws_translate(_, _)
aws_translate(up, k) ==
    IF k > Len(up) \/ ~up[k] THEN <<>>
    ELSE <<Record(k, TRUE, "event")>> \o aws_translate(up, k + 1)

\* the look-back of a fetch_logs call that was given no start_time, in
\* minutes (one time unit is the 60 s sleep of run_all): Splunk's
\* search_interval defaults to 300 s, Wazuh and AWS use timedelta(hours=1)
default_interval(kind) == IF kind = "splunk" THEN 5 ELSE 60

\* fetch_logs(start_time=None, end_time=None) at instant t: the window asked
\* of the source
fetch_window(kind, start_time, end_time, t) ==
    [start |-> IF start_time = NoneTime THEN t - default_interval(kind)
               ELSE start_time,
     end |-> IF end_time = NoneTime THEN t ELSE end_time]

\* fetch_logs(): every connector catches whatever the source call raises and
\* returns what it has
fetch_logs(kind, failed, up) ==
    IF failed THEN [raised |-> FALSE, logs |-> <<>>]
    ELSE IF kind = "aws" THEN [raised |-> FALSE, logs |-> aws_translate(up, 1)]
    ELSE [raised |-> FALSE, logs |-> [k \in 1..Len(up) |-> Record(k, up[k], "native")]]

\* parse_log(): Splunk and Wazuh catch a failing translation and return {};
\* AWS returns the record as it is
parse_log(kind, log) ==
    IF kind = "aws" THEN [raised |-> FALSE, value |-> log]
    ELSE IF log.ok THEN [raised |-> FALSE, value |-> Record(log.rid, TRUE, "event")]
    ELSE [raised |-> FALSE, value |-> Record(log.rid, FALSE, "empty")]

\* BaseLogAgent.process_logs: a record whose parse_log raises is skipped
RECURSIVE process_logs(_, _)
process_logs(kind, logs) ==
    IF logs = <<>> THEN <<>>
    ELSE LET r == parse_log(kind, Head(logs))
         IN  (IF r.raised THEN <<>> ELSE <<r.value>>) \o process_logs(kind, Tail(logs))

\* BaseLogAgent.run, line 59: self.last_run = datetime.now()
mark_nonempty_only(old, logs, t) == IF logs = <<>> THEN old ELSE t

mark_last_run(old, logs, t) == t

\* AgentRunner.run_agent, lines 48-58: `except Exception` logs whatever
\* agent.run() raised; nothing leaves run_agent
run_agent_reraise(raised) == [raised |-> raised]

run_agent(raised) == [raised |-> FALSE]

\* ------------------------------------------------------------------- state
VARIABLES
    now,        \* the wall clock
    durable,    \* broker: queue name -> declared durable
    ready,      \* broker: queue name -> messages waiting for delivery
    unacked,    \* broker: messages delivered to the consumer and not settled
    cstate,     \* consumer: "stopped", "waiting" (in start_consuming), "settling"
    cqueue,     \* consumer: the queue it is registered on
    verdict,    \* consumer: what _callback decided for the delivery in hand
    nextId,     \* next broker message id
    hist,       \* per message id: what happened to it (history)
    lastCall,   \* the publish/consume call made by the last step, if any (history)
    restarts,   \* broker restarts so far
    last_run,   \* connector -> watermark (NoneTime: never ran)
    session,    \* connector -> "none", "open", "closed": its session object
    running,    \* AgentRunner.running
    pc,         \* where the collection loop stands
    cur,        \* index in AgentOrder of the connector being run
    logs,       \* run(): what fetch_logs returned
    processed,  \* run(): what process_logs returned
    cyc,        \* the connector cycle in progress or just ended (history)
    ran,        \* run_all: the connectors whose run_agent returned in this pass (history)
    call        \* the last call of a translation or analysis function (history)

collVars == <<last_run, session, running, pc, cur, logs, processed, cyc, ran>>

vars ==
    <<now, durable, ready, unacked, cstate, cqueue, verdict, nextId, hist,
      lastCall, restarts, last_run, session, running, pc, cur, logs, processed, cyc,
      ran, call>>

\* caller-side messages: an event that carries an id, and one without
Events ==
    { << <<"id", "e1">>, <<"timestamp", "T0">>, <<"severity", "high">> >>,
      << <<"timestamp", "T1">>, <<"source", "siem">> >> }

\* bodies an outside producer may leave on the raw-events queue: text that is
\* not JSON, and a JSON array
ForeignBodies == {[json |-> "invalid", members |-> <<>>], [json |-> "array", members |-> <<>>]}

NoHist ==
    [src |-> "none", queue |-> "none", orig |-> <<>>, deliveries |-> 0, handled |-> 0,
     acks |-> 0, nacks |-> 0, returned |-> 0, results |-> 0, alerts |-> 0,
     firstResults |-> 0, firstAlerts |-> 0, payload |-> <<>>, lastRaised |-> FALSE]

NoCall ==
    [op |-> "none", queue |-> "none", before |-> <<>>, after |-> <<>>, raised |-> "none"]

\* the bus before any call, with the raw-events queue holding `backlog`
BusStart(backlog) ==
    /\ now = 0
    /\ durable = _setup_queues
    /\ ready = [q \in QueueValues |-> IF q = queues.logs THEN backlog ELSE <<>>]
    /\ unacked = {}
    /\ cstate = "stopped"
    /\ cqueue = "none"
    /\ verdict = [kind |-> "none", requeue |-> FALSE]
    /\ nextId = 1
    /\ hist = [i \in MsgIds |->
                  IF \E k \in 1..Len(backlog) : backlog[k].id = i
                  THEN [NoHist EXCEPT !.src = "foreign", !.queue = queues.logs]
                  ELSE NoHist]
    /\ lastCall = NoCall
    /\ restarts = 0

BusInit == BusStart(<<>>)

Tick ==
    /\ now < MaxTime
    /\ now' = now + 1
    /\ lastCall' = NoCall
    /\ UNCHANGED <<durable, ready, unacked, cstate, cqueue, verdict, nextId, hist,
                   restarts>>
    /\ UNCHANGED collVars
    /\ UNCHANGED call

\* a caller (a producer of events) calls publish(queue, message)
Publish ==
    \E q \in QueueArgs, e \in Events, up \in BOOLEAN :
        LET r == publish(q, e, now, up)
        IN  /\ nextId <= MaxMsgs
            /\ lastCall' = [op |-> "publish", queue |-> q, before |-> e,
                            after |-> r.message, raised |-> r.raised]
            /\ IF r.sent
               THEN /\ ready' = [ready EXCEPT ![q] =
                                    Append(@, [id |-> nextId, body |-> r.body,
                                               persistent |-> r.persistent])]
                    /\ hist' = [hist EXCEPT ![nextId] =
                                    [NoHist EXCEPT !.src = "publish", !.queue = q,
                                                   !.orig = e]]
                    /\ nextId' = nextId + 1
               ELSE UNCHANGED <<ready, hist, nextId>>
            /\ UNCHANGED <<now, durable, unacked, cstate, cqueue, verdict, restarts>>
            /\ UNCHANGED collVars
            /\ UNCHANGED call

\* a producer outside this program leaves a body on the raw-events queue
ForeignEnqueue ==
    \E b \in ForeignBodies :
        /\ nextId <= MaxMsgs
        /\ ready' = [ready EXCEPT ![queues.logs] =
                        Append(@, [id |-> nextId, body |-> b, persistent |-> TRUE])]
        /\ hist' = [hist EXCEPT ![nextId] =
                        [NoHist EXCEPT !.src = "foreign", !.queue = queues.logs]]
        /\ nextId' = nextId + 1
        /\ lastCall' = NoCall
        /\ UNCHANGED <<now, durable, unacked, cstate, cqueue, verdict, restarts>>
        /\ UNCHANGED collVars
        /\ UNCHANGED call

\* AnalysisRunner.run -> consume(queue, process_message): a fresh process
\* connects (declaring the queues again) and registers its callback
ConsumeArgs == {queues.logs, "logs", "bogus"}

Consume ==
    \E q \in ConsumeArgs, up \in BOOLEAN :
        LET r == consume(q, up)
        IN  /\ cstate = "stopped"
            /\ lastCall' = [op |-> "consume", queue |-> q, before |-> <<>>,
                            after |-> <<>>, raised |-> r.raised]
            /\ durable' = _setup_queues
            /\ IF r.registered
               THEN cstate' = "waiting" /\ cqueue' = q
               ELSE UNCHANGED <<cstate, cqueue>>
            /\ UNCHANGED <<now, ready, unacked, verdict, nextId, hist, restarts>>
            /\ UNCHANGED collVars
            /\ UNCHANGED call

RECURSIVE SumDeliveries(_)
SumDeliveries(i) == IF i = 0 THEN 0 ELSE hist[i].deliveries + SumDeliveries(i - 1)

TotalDeliveries == SumDeliveries(Backlog)

\* the delivery the consumer has in hand (prefetch_count = 1: at most one)
InHand == IF unacked = {} THEN <<>> ELSE <<CHOOSE m \in unacked : TRUE>>

IsPersistent(m) == m.persistent

\* the broker hands the head of the queue to the registered consumer as long
\* as basic_qos allows another unacknowledged delivery, and _callback runs up
\* to (not including) its basic_ack / basic_nack
Deliver ==
    \E llm \in LLMOutcomes, up \in BOOLEAN :
        /\ cstate \in {"waiting", "settling"}
        /\ ready[cqueue] # <<>>
        /\ Cardinality(unacked) < prefetch_count
        /\ TotalDeliveries < MaxDeliveries
        /\ LET m == Head(ready[cqueue])
               c == _callback(m.body, llm, now, up)
               h == hist[m.id]
               res == h.results + (IF c.pub.sent THEN 1 ELSE 0)
               al == h.alerts + (IF c.alerted THEN 1 ELSE 0)
               first == c.handled /\ h.handled = 0
           IN  /\ ready' = [q \in QueueValues |->
                               IF q = cqueue THEN Tail(ready[q])
                               ELSE IF q = "security_analysis" /\ c.pub.sent
                               THEN Append(ready[q], [id |-> 0, body |-> c.pub.body,
                                                      persistent |-> c.pub.persistent])
                               ELSE ready[q]]
               /\ unacked' = unacked \cup {m}
               /\ verdict' = [kind |-> c.verdict, requeue |-> c.requeue]
               /\ hist' = [hist EXCEPT ![m.id] =
                              [h EXCEPT !.deliveries = @ + 1,
                                        !.handled = @ + (IF c.handled THEN 1 ELSE 0),
                                        !.results = res,
                                        !.alerts = al,
                                        !.firstResults = IF first THEN res ELSE @,
                                        !.firstAlerts = IF first THEN al ELSE @,
                                        !.payload = IF c.handled THEN c.payload.value ELSE @,
                                        !.lastRaised = (~c.handled)]]
        /\ cstate' = "settling"
        /\ lastCall' = NoCall
        /\ UNCHANGED <<now, durable, cqueue, nextId, restarts>>
        /\ UNCHANGED collVars
        /\ UNCHANGED call

\* _callback's last statement reaches the broker: basic_ack removes the
\* message, basic_nack puts it back at the head of its queue.  An exception
\* that left _callback would leave start_consuming and consume (the except
\* clause re-raises), run() would close the bus, and the broker would take
\* the unsettled delivery back
Settle ==
    /\ cstate = "settling"
    /\ unacked # {}
    /\ LET m == InHand[1]
       IN  /\ unacked' = unacked \ {m}
           /\ IF verdict.kind = "ack"
              THEN /\ ready' = ready
                   /\ hist' = [hist EXCEPT ![m.id].acks = @ + 1]
              ELSE IF verdict.kind = "nack"
              THEN /\ ready' = [ready EXCEPT ![cqueue] =
                                   IF verdict.requeue THEN <<m>> \o @ ELSE @]
                   /\ hist' = [hist EXCEPT ![m.id].nacks = @ + 1]
              ELSE /\ ready' = [ready EXCEPT ![cqueue] = <<m>> \o @]
                   /\ hist' = [hist EXCEPT ![m.id].returned = @ + 1]
    /\ IF verdict.kind \in {"ack", "nack"}
       THEN cstate' = "waiting" /\ cqueue' = cqueue
       ELSE cstate' = "stopped" /\ cqueue' = "none"
    /\ verdict' = [kind |-> "none", requeue |-> FALSE]
    /\ lastCall' = NoCall
    /\ UNCHANGED <<now, durable, nextId, restarts>>
    /\ UNCHANGED collVars
    /\ UNCHANGED call

\* the broker restarts: durable queues keep their persistent messages,
\* unsettled deliveries go back to their queue, and the consumer's connection
\* is gone (start_consuming raises, run() closes the bus)
BrokerRestart ==
    /\ restarts < MaxRestarts
    /\ restarts' = restarts + 1
    /\ ready' = [q \in QueueValues |->
                    IF durable[q]
                    THEN SelectSeq((IF q = cqueue THEN InHand ELSE <<>>) \o ready[q],
                                   IsPersistent)
                    ELSE <<>>]
    /\ hist' = [i \in MsgIds |->
                   IF \E m \in unacked : m.id = i
                   THEN [hist[i] EXCEPT !.returned = @ + 1]
                   ELSE hist[i]]
    /\ unacked' = {}
    /\ cstate' = "stopped"
    /\ cqueue' = "none"
    /\ verdict' = [kind |-> "none", requeue |-> FALSE]
    /\ lastCall' = NoCall
    /\ UNCHANGED <<now, durable, nextId>>
    /\ UNCHANGED collVars
    /\ UNCHANGED call

BusNext ==
    \/ Tick
    \/ Publish
    \/ ForeignEnqueue
    \/ Consume
    \/ Deliver
    \/ Settle
    \/ BrokerRestart

\* the Analysis Stage as deployed: its consumer on the raw-events queue, the
\* broker, and producers outside this program; the queue is durable, so a
\* message may be waiting on it when the consumer starts
QosStart ==
    \E b \in ForeignBodies \cup {json_dumps(e) : e \in Events} :
        BusStart(<<[id |-> Backlog, body |-> b, persistent |-> TRUE]>>)

QosNext ==
    \/ ForeignEnqueue
    \/ Consume
    \/ Deliver
    \/ Settle
    \/ BrokerRestart

\* ------------------------------------------------------- collection loop
NoCyc ==
    [agent |-> "none", before |-> NoneTime, connected |-> FALSE, fetchFailed |-> FALSE,
     native |-> <<>>, marked |-> FALSE, returned |-> <<>>, raisedOut |-> FALSE,
     published |-> 0, done |-> FALSE, fetched |-> FALSE, disconnects |-> 0,
     connectRaised |-> FALSE, at |-> NoneTime,
     window |-> [start |-> NoneTime, end |-> NoneTime], steps |-> <<>>]

CollInit ==
    /\ last_run = [a \in Agents |-> NoneTime]
    /\ session = [a \in Agents |-> "none"]
    /\ running = TRUE
    /\ pc = "top"
    /\ cur = 1
    /\ logs = <<>>
    /\ processed = <<>>
    /\ cyc = NoCyc
    /\ ran = <<>>

NoPureCall == [kind |-> "none", fn |-> "none"]

PureInit == call = NoPureCall

Init == BusInit /\ CollInit /\ PureInit

busOnly ==
    <<durable, ready, unacked, cstate, cqueue, verdict, nextId, hist, lastCall, restarts>>

Agent == AgentOrder[cur]

\* a loop that never looks at the flag
while_true(flag) == TRUE

\* run_all: the condition of `while self.running:`
while_running(flag) == flag

\* run_all: `while self.running:` and the start of the for loop
LoopTop ==
    /\ pc = "top"
    /\ IF while_running(running)
       THEN pc' = "connect" /\ cur' = 1 /\ ran' = <<>>
       ELSE pc' = "done" /\ cur' = cur /\ ran' = ran
    /\ UNCHANGED <<now, last_run, session, running, logs, processed, cyc>>
    /\ UNCHANGED busOnly
    /\ UNCHANGED call

\* run_agent -> agent.run(): `if not self.connect(): raise ConnectionError`,
\* which run()'s own except clause turns into `return []`
Connect ==
    \E ok \in BOOLEAN :
        LET c == connect(Agent, ok, session[Agent])
        IN  /\ pc = "connect"
            /\ session' = [session EXCEPT ![Agent] = c.session]
            /\ cyc' = [NoCyc EXCEPT !.agent = Agent, !.before = last_run[Agent],
                                    !.connected = c.result /\ ~c.raised,
                                    !.connectRaised = c.raised,
                                    !.steps = <<"connect">>]
            /\ logs' = <<>>
            /\ processed' = <<>>
            /\ pc' = IF c.raised THEN "disconnect" ELSE after_connect(c.result)
            /\ UNCHANGED <<now, last_run, running, cur, ran>>
            /\ UNCHANGED busOnly
            /\ UNCHANGED call

\* run(): logs = self.fetch_logs(), called without arguments
Fetch ==
    \E failed \in BOOLEAN, up \in Upstream :
        LET f == fetch_logs(Agent, failed, up)
        IN  /\ pc = "fetch"
            /\ failed => up = <<>>
            /\ logs' = f.logs
            /\ cyc' = [cyc EXCEPT !.fetchFailed = failed, !.native = up,
                                  !.fetched = TRUE, !.at = now,
                                  !.window = fetch_window(Agent, NoneTime,
                                                          NoneTime, now),
                                  !.steps = Append(@, "fetch")]
            /\ pc' = IF f.raised THEN "disconnect" ELSE "process"
            /\ UNCHANGED <<now, last_run, session, running, cur, processed, ran>>
            /\ UNCHANGED busOnly
            /\ UNCHANGED call

\* run(): processed_logs = self.process_logs(logs); self.last_run = now()
Process ==
    /\ pc = "process"
    /\ processed' = process_logs(Agent, logs)
    /\ last_run' = [last_run EXCEPT ![Agent] = mark_last_run(@, logs, now)]
    /\ cyc' = [cyc EXCEPT !.marked = TRUE, !.steps = Append(@, "translate")]
    /\ pc' = "disconnect"
    /\ UNCHANGED <<now, session, running, cur, logs, ran>>
    /\ UNCHANGED busOnly
    /\ UNCHANGED call

\* run(): `finally: self.disconnect()`; when it raises, the exception
\* replaces run()'s return value and run_agent's except clause logs it
Disconnect ==
    \E fails \in BOOLEAN :
        LET d == disconnect(Agent, session[Agent], fails)
        IN  /\ pc = "disconnect"
            /\ session' = [session EXCEPT ![Agent] = d.session]
            /\ cyc' = [cyc EXCEPT !.raisedOut = d.raised,
                                  !.returned = IF d.raised THEN <<>> ELSE processed,
                                  !.disconnects = @ + 1]
            /\ pc' = "after"
            /\ UNCHANGED <<now, last_run, running, cur, logs, processed, ran>>
            /\ UNCHANGED busOnly
            /\ UNCHANGED call

\* run_agent after agent.run(): it logs how many events it got ("Process
\* logs here" is a comment: nothing is handed to the bus), then the for loop
\* moves on
After ==
    /\ pc = "after"
    /\ ready' = ready
    /\ cyc' = [cyc EXCEPT !.published =
                              Len(ready'[queues.logs]) - Len(ready[queues.logs]),
                          !.steps = IF Len(ready'[queues.logs]) > Len(ready[queues.logs])
                                    THEN Append(@, "publish") ELSE @,
                          !.done = TRUE]
    /\ logs' = <<>>
    /\ processed' = <<>>
    /\ ran' = Append(ran, Agent)
    /\ IF run_agent(cyc.raisedOut).raised
       THEN cur' = cur /\ pc' = "crashed"
       ELSE IF cur < Len(AgentOrder)
            THEN cur' = cur + 1 /\ pc' = "connect"
            ELSE cur' = cur /\ pc' = "sleep"
    /\ UNCHANGED <<now, last_run, session, running>>
    /\ UNCHANGED <<durable, unacked, cstate, cqueue, verdict, nextId, hist, lastCall,
                   restarts>>
    /\ UNCHANGED call

\* run_all: time.sleep(60); the clock of the model stops at MaxTime, where
\* only a loop that has been told to stop goes on
Sleep ==
    /\ pc = "sleep"
    /\ now < MaxTime \/ ~running
    /\ now' = IF now < MaxTime THEN now + 1 ELSE now
    /\ pc' = "top"
    /\ UNCHANGED <<last_run, session, running, cur, logs, processed, cyc, ran>>
    /\ UNCHANGED busOnly
    /\ UNCHANGED call

\* AgentRunner.stop(), called while run_all is under way: the flag is
\* cleared and every agent is disconnected at once, each inside its own
\* try/except
Stop ==
    \E fails \in [Agents -> BOOLEAN] :
        /\ running
        /\ pc \notin {"done", "crashed"}
        /\ running' = FALSE
        /\ session' = [a \in Agents |-> disconnect(a, session[a], fails[a]).session]
        /\ UNCHANGED <<now, last_run, pc, cur, logs, processed, cyc, ran>>
        /\ UNCHANGED busOnly
        /\ UNCHANGED call

\* one step of the thread that runs run_all
LoopStep ==
    \/ LoopTop
    \/ Connect
    \/ Fetch
    \/ Process
    \/ Disconnect
    \/ After
    \/ Sleep

CollNext ==
    \/ Tick
    \/ Stop
    \/ LoopTop
    \/ Connect
    \/ Fetch
    \/ Process
    \/ Disconnect
    \/ After
    \/ Sleep

SpecBus == Init /\ [][BusNext]_vars

QosInit == QosStart /\ CollInit /\ PureInit

SpecQos == QosInit /\ [][QosNext]_vars

\* AnalysisRunner.run registers on the raw-events queue; the broker keeps
\* delivering to a registered consumer, and every _callback runs to its
\* basic_ack / basic_nack
SpecQosFair ==
    /\ SpecQos
    /\ WF_vars(Consume /\ cstate' = "waiting")
    /\ WF_vars(Deliver)
    /\ WF_vars(Settle)

SpecCollect == Init /\ [][CollNext]_vars

\* run_all is straight-line code in one thread: as long as every call it
\* makes returns, it keeps taking steps
SpecCollectFair == SpecCollect /\ WF_vars(LoopStep)

\* ------------------------------------------------- severity taxonomy
\* fractional severities (8.5, 0.8) are carried in tenths
Tenths(x) == 10 * x

\* AWSAgent._map_guardduty_severity (severity on the 0-10 scale, in tenths)
map_guardduty_exclusive(severity) ==
    IF severity > Tenths(7) THEN "critical"
    ELSE IF severity > Tenths(4) THEN "high"
    ELSE IF severity > Tenths(2) THEN "medium"
    ELSE "low"

_map_guardduty_severity(severity) ==
    IF severity >= Tenths(7) THEN "critical"
    ELSE IF severity >= Tenths(4) THEN "high"
    ELSE IF severity >= Tenths(2) THEN "medium"
    ELSE "low"

\* AWSAgent._map_securityhub_severity (severity on the 0-100 scale, in tenths)
_map_securityhub_severity(severity) ==
    IF severity >= Tenths(70) THEN "critical"
    ELSE IF severity >= Tenths(40) THEN "high"
    ELSE IF severity >= Tenths(20) THEN "medium"
    ELSE "low"

\* WazuhAgent._map_severity (rule level, an integer)
wazuh_map_severity(level) ==
    IF level >= 15 THEN "critical"
    ELSE IF level >= 10 THEN "high"
    ELSE IF level >= 5 THEN "medium"
    ELSE "low"

\* GCPAgent._map_monitoring_severity (metric value, in tenths: 0.8, 0.6, 0.4)
gcp_map_monitoring_severity(value) ==
    IF value >= 8 THEN "critical"
    ELSE IF value >= 6 THEN "high"
    ELSE IF value >= 4 THEN "medium"
    ELSE "low"

\* dict.get(key, default) on a literal table
TableGet(table, key, default) == IF key \in DOMAIN table THEN table[key] ELSE default

\* AzureAgent._map_security_center_severity
azure_security_center_map ==
    [Critical |-> "critical", High |-> "high", Medium |-> "medium", Low |-> "low"]

azure_map_security_center_severity(severity) ==
    TableGet(azure_security_center_map, severity, "low")

\* AzureAgent._map_monitor_severity
azure_monitor_map ==
    [Critical |-> "critical", Error |-> "high", Warning |-> "medium", Informational |-> "low"]

azure_map_monitor_passthrough(level) == TableGet(azure_monitor_map, level, level)

azure_map_monitor_severity(level) == TableGet(azure_monitor_map, level, "low")

\* GCPAgent._map_security_center_severity
gcp_security_center_map ==
    [CRITICAL |-> "critical", HIGH |-> "high", MEDIUM |-> "medium", LOW |-> "low"]

gcp_map_security_center_severity(severity) ==
    TableGet(gcp_security_center_map, severity, "low")

\* GCPAgent._map_logging_severity
gcp_logging_map ==
    [CRITICAL |-> "critical", ERROR |-> "high", WARNING |-> "medium", INFO |-> "low"]

gcp_map_logging_severity(severity) == TableGet(gcp_logging_map, severity, "low")

\* native numeric severities, in tenths: from below 0 to above the 0-100 scale
NumericInputs == Tenths(-1) .. Tenths(101)

\* native severity labels: the table keys, other casings, an unknown label,
\* the empty string and a missing value
LabelInputs ==
    {"Critical", "High", "Medium", "Low", "Error", "Warning", "Informational",
     "CRITICAL", "HIGH", "MEDIUM", "LOW", "ERROR", "WARNING", "INFO",
     "critical", "high", "medium", "low", "error", "warning", "info", "Info",
     "Fatal", "", None}

NumericMaps == {"_map_guardduty_severity", "_map_securityhub_severity"}

LabelMaps ==
    {"azure._map_security_center_severity", "azure._map_monitor_severity",
     "gcp._map_security_center_severity", "gcp._map_logging_severity"}

\* a connector maps a native numeric severity
MapNumeric ==
    /\ call = NoPureCall
    /\ \E fn \in NumericMaps, v \in NumericInputs :
        /\ call' = [kind |-> "map", fn |-> fn, arg |-> v,
                    value |-> IF fn = "_map_guardduty_severity"
                              THEN _map_guardduty_severity(v)
                              ELSE _map_securityhub_severity(v)]
        /\ UNCHANGED <<now, collVars, busOnly>>

\* a connector maps a native severity label
MapLabel ==
    /\ call = NoPureCall
    /\ \E fn \in LabelMaps, label \in LabelInputs :
        /\ call' = [kind |-> "map", fn |-> fn, arg |-> label,
                    value |-> CASE fn = "azure._map_security_center_severity" ->
                                       azure_map_security_center_severity(label)
                                [] fn = "azure._map_monitor_severity" ->
                                       azure_map_monitor_severity(label)
                                [] fn = "gcp._map_security_center_severity" ->
                                       gcp_map_security_center_severity(label)
                                [] OTHER -> gcp_map_logging_severity(label)]
        /\ UNCHANGED <<now, collVars, busOnly>>

\* ------------------------------------------------- translation to events
\* a native record is a dict; a numeric native severity is held in tenths
\* the dicts with or without key k, its value drawn from vals
Opt(k, vals) == {<<>>} \cup {<< <<k, v>> >> : v \in vals}

\* `for x in answer: logs.append({...})` inside one try: the entries built
\* before the first one that raises are kept (an entry the loop's `if`
\* filters out adds nothing), the rest of the answer is lost
loop_kept(rs) ==
    LET bad == {k \in DOMAIN rs : rs[k].raised}
        n   == IF bad = {} THEN Len(rs)
               ELSE (CHOOSE k \in bad : \A j \in bad : k <= j) - 1
    IN  SelectSeq([k \in 1..n |-> k], LAMBDA k : rs[k].keep)

try_loop(rs) == [j \in 1..Len(loop_kept(rs)) |-> rs[loop_kept(rs)[j]].value]

\* SplunkAgent.parse_log
SplunkResults ==
    {a \o b \o c : a \in Opt("_time", {"T0"}),
                   b \in Opt("severity", {"info", "high", "HIGH", "5"}),
                   c \in Opt("src_ip", {"10.0.0.1"})}

SplunkAgent_parse_log(log, t) ==
    [raised |-> FALSE,
     value  |-> [timestamp      |-> DictGet(log, "_time", isoformat(t)),
                 source         |-> DictGet(log, "source", "unknown"),
                 sourcetype     |-> DictGet(log, "sourcetype", "unknown"),
                 host           |-> DictGet(log, "host", "unknown"),
                 raw            |-> DictGet(log, "_raw", ""),
                 severity       |-> DictGet(log, "severity", "info"),
                 event_type     |-> DictGet(log, "eventtype", "unknown"),
                 source_ip      |-> DictGet(log, "src_ip", ""),
                 destination_ip |-> DictGet(log, "dest_ip", ""),
                 user           |-> DictGet(log, "user", ""),
                 action         |-> DictGet(log, "action", ""),
                 status         |-> DictGet(log, "status", ""),
                 message        |-> DictGet(log, "message", "")]]

\* WazuhAgent.parse_log
WazuhSources ==
    {a \o b : a \in Opt("timestamp", {"T0"}),
              b \in Opt("rule", {<<>>} \cup Opt("level", {3, 7, 12, 15}))}

WazuhHits == Opt("_source", WazuhSources)

WazuhAgent_parse_log(log, t) ==
    LET source == DictGet(log, "_source", <<>>)
        rule   == DictGet(source, "rule", <<>>)
    IN  [raised |-> FALSE,
         value  |-> [timestamp      |-> DictGet(source, "timestamp", isoformat(t)),
                     source         |-> "wazuh",
                     agent          |-> DictGet(DictGet(source, "agent", <<>>), "name", "unknown"),
                     rule           |-> DictGet(rule, "level", "unknown"),
                     severity       |-> wazuh_map_severity(DictGet(rule, "level", 0)),
                     event_type     |-> DictGet(rule, "description", "unknown"),
                     source_ip      |-> DictGet(source, "sourceip", ""),
                     destination_ip |-> DictGet(source, "destinationip", ""),
                     user           |-> DictGet(DictGet(DictGet(DictGet(source, "data", <<>>),
                                            "win", <<>>), "eventdata", <<>>), "user", ""),
                     action         |-> DictGet(rule, "action", ""),
                     status         |-> DictGet(rule, "status", ""),
                     message        |-> DictGet(rule, "description", ""),
                     raw            |-> source]]

\* BaseLogAgent.process_logs: a record whose parse_log raises is skipped and
\* the loop goes on
parse_entries(rs) ==
    [k \in DOMAIN rs |-> [raised |-> FALSE, keep |-> ~rs[k].raised, value |-> rs[k].value]]

\* AWSAgent._fetch_cloudtrail_logs: `event.get('EventTime', '').isoformat()`
\* raises on the default ''
CloudTrailEvents ==
    {a \o b : a \in Opt("EventTime", Times), b \in Opt("EventName", {"ConsoleLogin"})}

cloudtrail_entry(event) ==
    IF ~DictHas(event, "EventTime") THEN [raised |-> TRUE, keep |-> FALSE, value |-> <<>>]
    ELSE [raised |-> FALSE, keep |-> TRUE,
          value  |-> [service    |-> "cloudtrail",
                      raw        |-> event,
                      timestamp  |-> isoformat(DictGet(event, "EventTime", 0)),
                      source     |-> "aws",
                      event_type |-> DictGet(event, "EventName", "unknown"),
                      user       |-> DictGet(event, "Username", "unknown"),
                      source_ip  |-> DictGet(event, "SourceIPAddress", ""),
                      action     |-> DictGet(event, "EventName", ""),
                      status     |-> DictGet(DictGet(event, "ResponseElements", <<>>),
                                             "status", ""),
                      message    |-> DictGet(event, "CloudTrailEvent", "")]]

\* AWSAgent._fetch_guardduty_findings
GuardDutyFindings ==
    {a \o b : a \in Opt("UpdatedAt", Times), b \in Opt("Severity", {15, 85})}

guardduty_entry(finding) ==
    LET action == DictGet(DictGet(finding, "Service", <<>>), "Action", <<>>)
        conn   == DictGet(action, "NetworkConnectionAction", <<>>)
    IN  IF ~DictHas(finding, "UpdatedAt") THEN [raised |-> TRUE, keep |-> FALSE, value |-> <<>>]
        ELSE [raised |-> FALSE, keep |-> TRUE,
              value  |-> [service    |-> "guardduty",
                          raw        |-> finding,
                          timestamp  |-> isoformat(DictGet(finding, "UpdatedAt", 0)),
                          source     |-> "aws",
                          event_type |-> DictGet(finding, "Type", "unknown"),
                          severity   |-> _map_guardduty_severity(
                                             DictGet(finding, "Severity", 0)),
                          source_ip  |-> DictGet(DictGet(conn, "RemoteIpDetails", <<>>),
                                                 "IpAddressV4", ""),
                          action     |-> DictGet(action, "ActionType", ""),
                          status     |-> DictGet(conn, "ConnectionDirection", ""),
                          message    |-> DictGet(finding, "Description", "")]]

\* AWSAgent._fetch_securityhub_findings: `finding.get('Resources', [{}])[0]`
\* raises on an empty Resources list
SecurityHubFindings ==
    {a \o b \o c : a \in Opt("UpdatedAt", Times),
                   b \in Opt("Severity", Opt("Normalized", {Tenths(35)})),
                   c \in Opt("Resources", {<<>>, << <<>> >>})}

securityhub_entry(finding) ==
    LET resources == DictGet(finding, "Resources", << <<>> >>)
    IN  IF ~DictHas(finding, "UpdatedAt") \/ resources = <<>>
        THEN [raised |-> TRUE, keep |-> FALSE, value |-> <<>>]
        ELSE [raised |-> FALSE, keep |-> TRUE,
              value  |-> [service    |-> "securityhub",
                          raw        |-> finding,
                          timestamp  |-> isoformat(DictGet(finding, "UpdatedAt", 0)),
                          source     |-> "aws",
                          event_type |-> DictGet(finding, "Type", "unknown"),
                          severity   |-> _map_securityhub_severity(
                                             DictGet(DictGet(finding, "Severity", <<>>),
                                                     "Normalized", 0)),
                          source_ip  |-> DictGet(DictGet(DictGet(resources[1], "Details", <<>>),
                                                     "AwsEc2Instance", <<>>),
                                                 "PublicIpAddress", ""),
                          action     |-> DictGet(DictGet(DictGet(finding, "Remediation", <<>>),
                                                     "Recommendation", <<>>), "Text", ""),
                          status     |-> DictGet(finding, "RecordState", ""),
                          message    |-> DictGet(finding, "Description", "")]]

\* an SDK object is a dict of its attributes; an attribute that is None is
\* left out. fetch_logs() is called without arguments, so the window is the
\* hour before the call
in_window(x, t) == t - 1 <= x /\ x <= t

\* AzureAgent._fetch_security_center_logs: alerts, then assessments, in one try
AzureAlerts ==
    {a \o b : a \in Opt("reported_time", Times), b \in Opt("severity", {"High", "high"})}

AzureAssessments ==
    {a \o b : a \in Opt("assessment_date", Times), b \in Opt("severity", {"Medium"})}

azure_alert_entry(alert, t) ==
    IF ~DictHas(alert, "reported_time") THEN [raised |-> TRUE, keep |-> FALSE, value |-> <<>>]
    ELSE [raised |-> FALSE, keep |-> in_window(DictGet(alert, "reported_time", 0), t),
          value  |-> [service    |-> "security_center",
                      raw        |-> alert,
                      timestamp  |-> isoformat(DictGet(alert, "reported_time", 0)),
                      source     |-> "azure",
                      event_type |-> DictGet(alert, "alert_type", None),
                      severity   |-> azure_map_security_center_severity(
                                         DictGet(alert, "severity", None)),
                      source_ip  |-> DictGet(DictGet(alert, "extended_properties", <<>>),
                                             "source_ip", ""),
                      action     |-> DictGet(alert, "recommended_action", None),
                      status     |-> DictGet(alert, "state", None),
                      message    |-> DictGet(alert, "description", None)]]

azure_assessment_entry(rec, t) ==
    IF ~DictHas(rec, "assessment_date") THEN [raised |-> TRUE, keep |-> FALSE, value |-> <<>>]
    ELSE [raised |-> FALSE, keep |-> in_window(DictGet(rec, "assessment_date", 0), t),
          value  |-> [service    |-> "security_center",
                      raw        |-> rec,
                      timestamp  |-> isoformat(DictGet(rec, "assessment_date", 0)),
                      source     |-> "azure",
                      event_type |-> "recommendation",
                      severity   |-> azure_map_security_center_severity(
                                         DictGet(rec, "severity", None)),
                      source_ip  |-> "",
                      action     |-> DictGet(rec, "remediation", None),
                      status     |-> DictGet(DictGet(rec, "status", <<>>), "code", None),
                      message    |-> DictGet(rec, "display_name", None)]]

azure_security_center_entries(alerts, recs, t) ==
    [k \in DOMAIN alerts |-> azure_alert_entry(alerts[k], t)]
    \o [k \in DOMAIN recs |-> azure_assessment_entry(recs[k], t)]

\* AzureAgent._fetch_monitor_logs
AzureActivityLogs ==
    {a \o b : a \in Opt("event_timestamp", Times),
              b \in Opt("level", {"Error", "Warning", "Verbose"})}

azure_monitor_entry(log) ==
    IF ~DictHas(log, "event_timestamp") THEN [raised |-> TRUE, keep |-> FALSE, value |-> <<>>]
    ELSE [raised |-> FALSE, keep |-> TRUE,
          value  |-> [service    |-> "monitor",
                      raw        |-> log,
                      timestamp  |-> isoformat(DictGet(log, "event_timestamp", 0)),
                      source     |-> "azure",
                      event_type |-> DictGet(DictGet(log, "operation_name", <<>>), "value", None),
                      severity   |-> azure_map_monitor_severity(DictGet(log, "level", None)),
                      source_ip  |-> DictGet(log, "caller", None),
                      action     |-> DictGet(DictGet(log, "operation_name", <<>>), "value", None),
                      status     |-> DictGet(DictGet(log, "status", <<>>), "value", None),
                      message    |-> DictGet(log, "description", None)]]

\* GCPAgent._fetch_security_center_logs
GcpFindings ==
    {a \o b : a \in Opt("event_time", Times), b \in Opt("severity", {"HIGH", "High"})}

gcp_finding_entry(finding) ==
    IF ~DictHas(finding, "event_time") THEN [raised |-> TRUE, keep |-> FALSE, value |-> <<>>]
    ELSE [raised |-> FALSE, keep |-> TRUE,
          value  |-> [service    |-> "security_command_center",
                      raw        |-> finding,
                      timestamp  |-> isoformat(DictGet(finding, "event_time", 0)),
                      source     |-> "gcp",
                      event_type |-> DictGet(finding, "category", None),
                      severity   |-> gcp_map_security_center_severity(
                                         DictGet(finding, "severity", None)),
                      source_ip  |-> DictGet(DictGet(finding, "source_properties", <<>>),
                                             "source_ip", ""),
                      action     |-> DictGet(finding, "state", None),
                      status     |-> DictGet(finding, "state", None),
                      message    |-> DictGet(finding, "description", None)]]

\* GCPAgent._fetch_monitoring_logs: the points of one time series
GcpPoints ==
    {a \o b : a \in Opt("start_time", Times), b \in Opt("double_value", {3, 9})}

gcp_point_entry(point) ==
    IF ~DictHas(point, "start_time")
    THEN [raised |-> TRUE, keep |-> FALSE, value |-> <<>>]
    ELSE [raised |-> FALSE, keep |-> TRUE,
          value  |-> [service    |-> "cloud_monitoring",
                      raw        |-> point,
                      timestamp  |-> isoformat(DictGet(point, "start_time", 0)),
                      source     |-> "gcp",
                      event_type |-> "monitoring.googleapis.com/alerting/violations",
                      severity   |-> gcp_map_monitoring_severity(
                                         DictGet(point, "double_value", 0)),
                      source_ip  |-> "",
                      action     |-> "alert",
                      status     |-> "active",
                      message    |-> "Alert"]]

\* GCPAgent._fetch_cloud_logging_logs: the entry's severity is read as an
\* enum (`entry.severity.name`) and handed as it is to the label table
GcpLogSeverityEnum == {"LogSeverity.ERROR", "LogSeverity.CRITICAL"}

enum_name(v) == IF v = "LogSeverity.ERROR" THEN "ERROR" ELSE "CRITICAL"

GcpLogEntries ==
    {a \o b : a \in Opt("timestamp", Times),
              b \in Opt("severity", GcpLogSeverityEnum \cup {"ERROR"})}

gcp_log_entry(entry) ==
    IF ~DictHas(entry, "timestamp") \/ DictGet(entry, "severity", None) \notin GcpLogSeverityEnum
    THEN [raised |-> TRUE, keep |-> FALSE, value |-> <<>>]
    ELSE [raised |-> FALSE, keep |-> TRUE,
          value  |-> [service    |-> "cloud_logging",
                      raw        |-> entry,
                      timestamp  |-> isoformat(DictGet(entry, "timestamp", 0)),
                      source     |-> "gcp",
                      event_type |-> enum_name(DictGet(entry, "severity", None)),
                      severity   |-> gcp_map_logging_severity(DictGet(entry, "severity", None)),
                      source_ip  |-> DictGet(DictGet(DictGet(entry, "resource", <<>>),
                                                 "labels", <<>>), "source_ip", ""),
                      action     |-> DictGet(DictGet(entry, "resource", <<>>), "type", None),
                      status     |-> enum_name(DictGet(entry, "severity", None)),
                      message    |-> DictGet(entry, "text_payload",
                                             DictGet(entry, "json_payload", None))]]

\* the answers a source gives to one fetch: up to two records
Batches(S) == {<<>>} \cup {<<x>> : x \in S} \cup {<<x, y>> : x \in S, y \in S}

\* the native records of a call: whether each carries its timestamp, and
\* whether the loop's own filter lets it through
Natives(batch, tskey, t) ==
    [k \in DOMAIN batch |->
        [rec     |-> batch[k],
         hasTime |-> DictHas(batch[k], tskey),
         admit   |-> tskey \in {"reported_time", "assessment_date"} /\ DictHas(batch[k], tskey)
                         => in_window(DictGet(batch[k], tskey, 0), t)]]

\* what a translation call is remembered by: its records, the instant, the
\* events it returned and the record each event was made from
Translation(fn, t, natives, rs) ==
    [kind |-> "translate", fn |-> fn, t |-> t, natives |-> natives,
     events |-> try_loop(rs), origin |-> loop_kept(rs)]

\* BaseLogAgent.process_logs over SplunkAgent.parse_log
TranslateSplunk ==
    /\ call = NoPureCall
    /\ \E batch \in Batches(SplunkResults), t \in Times :
        /\ call' = Translation("splunk", t, Natives(batch, "_time", t),
                       parse_entries([k \in DOMAIN batch |-> SplunkAgent_parse_log(batch[k], t)]))
        /\ UNCHANGED <<now, collVars, busOnly>>

\* BaseLogAgent.process_logs over WazuhAgent.parse_log
TranslateWazuh ==
    /\ call = NoPureCall
    /\ \E batch \in Batches(WazuhHits), t \in Times :
        /\ call' = Translation("wazuh", t,
                       [k \in DOMAIN batch |->
                           [rec |-> batch[k],
                            hasTime |-> DictHas(DictGet(batch[k], "_source", <<>>), "timestamp"),
                            admit |-> TRUE]],
                       parse_entries([k \in DOMAIN batch |-> WazuhAgent_parse_log(batch[k], t)]))
        /\ UNCHANGED <<now, collVars, busOnly>>

\* AWSAgent.fetch_logs: one of the three service fetches
TranslateAWS ==
    /\ call = NoPureCall
    /\ \E t \in Times :
        /\ \/ \E batch \in Batches(CloudTrailEvents) :
                 call' = Translation("aws.cloudtrail", t, Natives(batch, "EventTime", t),
                             [k \in DOMAIN batch |-> cloudtrail_entry(batch[k])])
           \/ \E batch \in Batches(GuardDutyFindings) :
                 call' = Translation("aws.guardduty", t, Natives(batch, "UpdatedAt", t),
                             [k \in DOMAIN batch |-> guardduty_entry(batch[k])])
           \/ \E batch \in Batches(SecurityHubFindings) :
                 call' = Translation("aws.securityhub", t, Natives(batch, "UpdatedAt", t),
                             [k \in DOMAIN batch |-> securityhub_entry(batch[k])])
        /\ UNCHANGED <<now, collVars, busOnly>>

\* AzureAgent.fetch_logs: one of the two service fetches
TranslateAzure ==
    /\ call = NoPureCall
    /\ \E t \in Times :
        /\ \/ \E alerts \in {b \in Batches(AzureAlerts) : Len(b) <= 1},
                 recs \in {b \in Batches(AzureAssessments) : Len(b) <= 1} :
                 call' = Translation("azure.security_center", t,
                             Natives(alerts, "reported_time", t)
                                 \o Natives(recs, "assessment_date", t),
                             azure_security_center_entries(alerts, recs, t))
           \/ \E batch \in Batches(AzureActivityLogs) :
                 call' = Translation("azure.monitor", t, Natives(batch, "event_timestamp", t),
                             [k \in DOMAIN batch |-> azure_monitor_entry(batch[k])])
        /\ UNCHANGED <<now, collVars, busOnly>>

\* GCPAgent.fetch_logs: one of the three service fetches
TranslateGCP ==
    /\ call = NoPureCall
    /\ \E t \in Times :
        /\ \/ \E batch \in Batches(GcpFindings) :
                 call' = Translation("gcp.security_command_center", t,
                             Natives(batch, "event_time", t),
                             [k \in DOMAIN batch |-> gcp_finding_entry(batch[k])])
           \/ \E batch \in Batches(GcpPoints) :
                 call' = Translation("gcp.cloud_monitoring", t, Natives(batch, "start_time", t),
                             [k \in DOMAIN batch |-> gcp_point_entry(batch[k])])
           \/ \E batch \in Batches(GcpLogEntries) :
                 call' = Translation("gcp.cloud_logging", t, Natives(batch, "timestamp", t),
                             [k \in DOMAIN batch |-> gcp_log_entry(batch[k])])
        /\ UNCHANGED <<now, collVars, busOnly>>

\* what a caller may hand to analyze_security_event: a decoded event, or a
\* decoded payload that is no dict
AnalyzeInputs ==
    {d \in {json_loads(json_dumps(e)) : e \in Events} \cup
            {json_loads(b) : b \in ForeignBodies} : ~d.raised}

\* LLMAnalysisEngine.analyze_security_event(event)
Analyze ==
    /\ call = NoPureCall
    /\ \E event \in AnalyzeInputs, llm \in LLMOutcomes :
        /\ call' = [kind |-> "analyze", fn |-> "analyze_security_event",
                    event |-> event, llm |-> llm,
                    value |-> analyze_security_event(event, llm)]
        /\ UNCHANGED <<now, collVars, busOnly>>

\* ------------------------------------------------------------- notifier
\* the channels send_alert has a sender for
supported == {"slack", "email"}

\* a default that leaves email out
default_slack_only == <<"slack">>

default_channels == <<"slack", "email">>

\* the for loop of send_alert, one try per channel: _send_slack_alert and
\* _send_email_alert raise when the channel is not configured or the
\* transport fails (channel \in fails) and the except clause takes it; a name
\* that is neither slack nor email runs no branch
RECURSIVE deliver_all(_, _)
deliver_all(channels, fails) ==
    IF channels = <<>> THEN <<>>
    ELSE (IF Head(channels) \in supported
          THEN <<[channel |-> Head(channels),
                  ok |-> Head(channels) \notin fails]>>
          ELSE <<>>) \o deliver_all(Tail(channels), fails)

\* a send_alert whose loop has no try/except: the first failing channel ends it
send_alert_abort(alert, channels, fails) ==
    LET list == IF channels.isNone \/ channels.list = <<>>
                THEN default_channels ELSE channels.list
        bad  == {k \in 1..Len(list) : list[k] \in supported \cap fails}
        last == IF bad = {} THEN Len(list)
                ELSE CHOOSE k \in bad : \A j \in bad : k <= j
    IN  [raised |-> bad # {},
         attempts |-> deliver_all(SubSeq(list, 1, last), fails)]

\* Notifier.send_alert(alert, channels); channels is Python None (isNone) or
\* a list of names
send_alert(alert, channels, fails) ==
    LET list == IF channels.isNone \/ channels.list = <<>>
                THEN default_channels ELSE channels.list
    IN  [raised |-> FALSE, attempts |-> deliver_all(list, fails)]

MaxChannels == 2

ChannelArgs ==
    {[isNone |-> TRUE, list |-> <<>>]} \cup
    {[isNone |-> FALSE, list |-> l] :
        l \in UNION {[1..n -> supported \cup {"sms"}] : n \in 0..MaxChannels}}

SendAlert ==
    /\ call = NoPureCall
    /\ \E channels \in ChannelArgs, fails \in SUBSET supported :
        /\ call' = [kind |-> "send_alert", fn |-> "send_alert",
                    channels |-> channels, fails |-> fails,
                    value |-> send_alert([severity |-> "critical"],
                                         channels, fails)]
        /\ UNCHANGED <<now, collVars, busOnly>>

\* what the enrichment step can come back with: a severity as the response
\* parser leaves it (case kept), or a failure
LLMVerdicts == {"critical", "high", "medium", "low", "High", "error"}

\* AnalysisRunner.process_event(event), with the deliveries of the send_alert
\* call it makes (send_alert(alert): default channels)
ProcessEvent ==
    /\ call = NoPureCall
    /\ \E event \in AnalyzeInputs, llm \in LLMVerdicts, up \in BOOLEAN,
          fails \in SUBSET supported :
        LET r == process_event(event, llm, now, up)
        IN  /\ call' = [kind |-> "process", fn |-> "process_event",
                        event |-> event, llm |-> llm, fails |-> fails,
                        analysis |-> analyze_security_event(event, llm),
                        value |-> r,
                        attempts |->
                            IF r.alerts = <<>> THEN <<>>
                            ELSE send_alert(r.alerts[1],
                                            [isNone |-> TRUE, list |-> <<>>],
                                            fails).attempts]
            /\ UNCHANGED <<now, collVars, busOnly>>

\* ------------------------------------------------------- response parser
\* A line of the enrichment response is a sequence of tokens: words, ":" and
\* " " (white space).  str.lower() of a word:
lower(word) ==
    CASE word = "Severity" -> "severity"
      [] word = "Impact" -> "impact"
      [] word = "Recommendations" -> "recommendations"
      [] word = "Indicators" -> "indicators"
      [] word = "High" -> "high"
      [] word = "Critical" -> "critical"
      [] OTHER -> word

\* `keyword in line.lower()`: recommend is found in recommendations,
\* indicator in indicators
contains(line, keyword) ==
    \E k \in 1..Len(line) :
        \/ lower(line[k]) = keyword
        \/ keyword = "recommend" /\ lower(line[k]) = "recommendations"
        \/ keyword = "indicator" /\ lower(line[k]) = "indicators"

\* str.strip()
RECURSIVE strip(_)
strip(line) ==
    IF line = <<>> THEN <<>>
    ELSE IF Head(line) = " " THEN strip(Tail(line))
    ELSE IF line[Len(line)] = " " THEN strip(SubSeq(line, 1, Len(line) - 1))
    ELSE line

\* the text of a token sequence
RECURSIVE text(_)
text(line) == IF line = <<>> THEN "" ELSE Head(line) \o text(Tail(line))

\* a split that keeps what follows the first colon
after_first_colon(line) ==
    LET colons == {k \in 1..Len(line) : line[k] = ":"}
    IN  IF colons = {} THEN line
        ELSE LET first == CHOOSE k \in colons : \A j \in colons : k <= j
                 rest == SubSeq(line, first + 1, Len(line))
                 more == {k \in 1..Len(rest) : rest[k] = ":"}
             IN  IF more = {} THEN rest
                 ELSE SubSeq(rest, 1, (CHOOSE k \in more : \A j \in more : k <= j) - 1)

\* line.split(':')[-1]: the whole line when it has no colon
after_last_colon(line) ==
    LET colons == {k \in 1..Len(line) : line[k] = ":"}
    IN  IF colons = {} THEN line
        ELSE SubSeq(line, (CHOOSE k \in colons : \A j \in colons : k >= j) + 1,
                    Len(line))

\* an elif chain that tests impact before severity
line_kind_impact_first(line) ==
    IF contains(line, "impact") THEN "impact"
    ELSE IF contains(line, "severity") THEN "severity"
    ELSE IF contains(line, "recommend") THEN "recommendations"
    ELSE IF contains(line, "indicator") THEN "iocs"
    ELSE "content"

\* the if/elif chain of the loop body, on a stripped non-blank line
line_kind(line) ==
    IF contains(line, "severity") THEN "severity"
    ELSE IF contains(line, "impact") THEN "impact"
    ELSE IF contains(line, "recommend") THEN "recommendations"
    ELSE IF contains(line, "indicator") THEN "iocs"
    ELSE "content"

\* one pass of the for loop: acc is result plus current_section
parse_line(acc, raw) ==
    LET line == strip(raw)
        kind == line_kind(line)
    IN  IF line = <<>> THEN acc
        ELSE IF kind = "severity"
        THEN [acc EXCEPT !.severity = text(strip(after_last_colon(line)))]
        ELSE IF kind \in {"impact", "recommendations", "iocs"}
        THEN [acc EXCEPT !.section = kind]
        ELSE IF acc.section = "impact"
        THEN [acc EXCEPT !.impact = @ \o text(line) \o " "]
        ELSE IF acc.section = "recommendations"
        THEN [acc EXCEPT !.recommendations = Append(@, text(line))]
        ELSE IF acc.section = "iocs"
        THEN [acc EXCEPT !.iocs = Append(@, text(line))]
        ELSE acc

RECURSIVE parse_lines(_, _)
parse_lines(acc, lines) ==
    IF lines = <<>> THEN acc
    ELSE parse_lines(parse_line(acc, Head(lines)), Tail(lines))

\* LLMAnalysisEngine._parse_analysis_response(response); response is given
\* as response.split('\n')
_parse_analysis_response(response) ==
    LET acc == parse_lines([severity |-> "unknown", impact |-> "",
                            recommendations |-> <<>>, iocs |-> <<>>,
                            section |-> None], response)
    IN  [severity |-> acc.severity, impact |-> acc.impact,
         recommendations |-> acc.recommendations, iocs |-> acc.iocs]

MaxLines == 3

ResponseLines ==
    { <<>>,
      <<" ", "Severity", ":", " ", "High", " ">>,
      <<"severity", ":", "critical">>,
      <<"Severity", ":", "score", ":", "high">>,
      <<"Severity", " ", "Critical">>,
      <<"Severity", ":", " ", "Critical">>,
      <<"Impact", ":">>,
      <<"Recommendations", ":">>,
      <<"Indicators", ":">>,
      <<"Impact", " ", "severity", ":", "low">>,
      <<"Recommendations", " ", "Indicators">>,
      <<" ", "x", " ">>,
      <<"y", ":", "z">> }

Responses == UNION {[1..n -> ResponseLines] : n \in 0..MaxLines}

Parse ==
    /\ call = NoPureCall
    /\ \E response \in Responses :
        /\ call' = [kind |-> "parse", fn |-> "_parse_analysis_response",
                    response |-> response,
                    value |-> _parse_analysis_response(response)]
        /\ UNCHANGED <<now, collVars, busOnly>>

\* process_event on an event for which the enrichment step answered with
\* `response`: analyze_security_event returns what the parser made of it
Enrich ==
    /\ call = NoPureCall
    /\ \E response \in Responses :
        LET event == json_loads(json_dumps(
                         << <<"id", "e1">>, <<"source", "siem">> >>))
            parsed == _parse_analysis_response(response)
        IN  /\ call' = [kind |-> "enrich", fn |-> "process_event",
                        response |-> response, parsed |-> parsed,
                        value |-> process_event(event, parsed.severity, now, TRUE)]
            /\ UNCHANGED <<now, collVars, busOnly>>

\* a get_status that releases what its connect opened
get_status_releasing(kind, ok, watermark, held) ==
    LET c == connect(kind, ok, held)
    IN  [value |-> [last_run |-> watermark, connected |-> c.result],
         last_run |-> watermark,
         session |-> disconnect(kind, c.session, FALSE).session,
         calls |-> <<"connect", "disconnect">>]

\* BaseLogAgent.get_status() on a connector whose last_run is `watermark` and
\* whose session is `held`: the status dict is built from self.last_run and
\* the result of self.connect(); calls: the connector methods invoked
get_status(kind, ok, watermark, held) ==
    LET c == connect(kind, ok, held)
    IN  [value |-> [last_run |-> watermark, connected |-> c.result],
         last_run |-> watermark,
         session |-> c.session,
         calls |-> <<"connect">>]

\* health_check: agent.get_status() for a connector in any state
GetStatus ==
    /\ call = NoPureCall
    /\ \E kind \in Agents, ok \in BOOLEAN, watermark \in {NoneTime} \cup Times,
          held \in {"none", "idle", "open", "closed"} :
        /\ call' = [kind |-> "status", fn |-> "get_status", agent |-> kind,
                    ok |-> ok, last_run |-> watermark, session |-> held,
                    after |-> get_status(kind, ok, watermark, held)]
        /\ UNCHANGED <<now, collVars, busOnly>>

PureNext ==
    \/ Analyze
    \/ Parse
    \/ GetStatus
    \/ Enrich
    \/ SendAlert
    \/ ProcessEvent
    \/ MapNumeric
    \/ MapLabel
    \/ TranslateSplunk
    \/ TranslateWazuh
    \/ TranslateAWS
    \/ TranslateAzure
    \/ TranslateGCP

SpecPure == Init /\ [][PureNext]_vars

\* ------------------------------------------------------- claims: message bus
InReady(i, q) == \E k \in 1..Len(ready[q]) : ready[q][k].id = i

InFlight(i) == \E m \in unacked : m.id = i

RawEvents == {i \in MsgIds : hist[i].src = "publish" /\ hist[i].queue = queues.logs}

\* C1: a raw event published to the raw-events queue is acknowledged only
\* after an analysis result for it has been published to the analysis-results
\* queue (a failed publish of the result leads to a nack, never to an ack).
C1_AckOnlyAfterResult ==
    \A i \in RawEvents : hist[i].acks >= 1 => hist[i].results >= 1

\* C2: every delivery whose callback ran to its end is settled exactly once:
\* acknowledged when decoding and the handler returned normally, otherwise
\* negatively-acknowledged with requeue; an acknowledged message is gone from
\* the broker, a negatively-acknowledged one is back at the head of its queue
\* for the next delivery.
C2_AckXorNack ==
    /\ \A i \in MsgIds :
        /\ hist[i].acks <= 1
        /\ hist[i].acks = 1 => ~InFlight(i) /\ \A q \in QueueValues : ~InReady(i, q)
        /\ hist[i].deliveries =
              hist[i].acks + hist[i].nacks + hist[i].returned
              + (IF InFlight(i) THEN 1 ELSE 0)
        /\ (hist[i].nacks >= 1 /\ hist[i].lastRaised /\ ~InFlight(i))
              => /\ ready[hist[i].queue] # <<>>
                 /\ Head(ready[hist[i].queue]).id = i
        /\ (hist[i].acks = 1) => ~hist[i].lastRaised
    /\ cstate = "settling" =>
        /\ Cardinality(unacked) = 1
        /\ verdict.kind = (IF hist[InHand[1].id].lastRaised THEN "nack" ELSE "ack")
        /\ verdict.requeue

\* C2 witness: a message whose decoding raised was negatively-acknowledged
\* and has been delivered again
C2_Witness ==
    \E i \in MsgIds :
        hist[i].nacks >= 1 /\ hist[i].deliveries >= 2 /\ InFlight(i)

\* C3: the payload handed to the handler equals the published event on every
\* field of the event (the event's own timestamp included).
C3_RoundTrip ==
    \A i \in MsgIds :
        (hist[i].src = "publish" /\ hist[i].handled >= 1) =>
            \A k \in DictKeys(hist[i].orig) :
                DictGet(hist[i].payload, k, None) = DictGet(hist[i].orig, k, None)

\* C4: a publish or consume call naming a queue that is not declared raises
\* the invalid-queue error, enqueues nothing, leaves the caller's message as
\* it was and registers no consumer.
C4_InvalidQueue ==
    [][(lastCall'.op # "none" /\ lastCall'.queue \notin QueueValues) =>
          /\ lastCall'.raised = "ValueError"
          /\ lastCall'.after = lastCall'.before
          /\ ready' = ready
          /\ unacked' = unacked
          /\ nextId' = nextId
          /\ hist' = hist
          /\ cstate' = cstate
          /\ cqueue' = cqueue]_vars

\* C4 witness: publish was called with the table key `logs`, which is not a
\* declared queue name, and raised
C4_Witness ==
    /\ lastCall.op = "publish"
    /\ lastCall.queue = "logs"
    /\ lastCall.raised = "ValueError"
    /\ lastCall.after = lastCall.before

\* C5: all four queues are durable, every message on the broker is
\* persistent, and a message accepted by publish stays on the broker (waiting
\* or delivered) across restarts until it is acknowledged.
C5_Durable ==
    /\ \A q \in QueueValues : durable[q]
    /\ \A q \in QueueValues : \A k \in 1..Len(ready[q]) : ready[q][k].persistent
    /\ \A m \in unacked : m.persistent
    /\ \A i \in MsgIds :
        (hist[i].src = "publish" /\ hist[i].acks = 0) =>
            InFlight(i) \/ InReady(i, hist[i].queue)

\* C5 witness: the broker has restarted and a published, unacknowledged
\* message is still in its queue
C5_Witness ==
    /\ restarts >= 1
    /\ \E i \in MsgIds :
        hist[i].src = "publish" /\ hist[i].acks = 0 /\ InReady(i, hist[i].queue)

\* C6: handling the same raw event a second time leaves the analysis-results
\* queue and the alerts sent as the first handling left them.
C6_Idempotent ==
    \A i \in RawEvents :
        hist[i].handled >= 2 =>
            /\ hist[i].results = hist[i].firstResults
            /\ hist[i].alerts = hist[i].firstAlerts

\* ---------------------------------------------------- claims: collection
\* the Canonical Events of the records of `up` whose translation succeeds,
\* in upstream order
RECURSIVE Translated(_, _)
Translated(up, k) ==
    IF k > Len(up) THEN <<>>
    ELSE (IF up[k] THEN <<Record(k, TRUE, "event")>> ELSE <<>>) \o Translated(up, k + 1)

\* C7: a cycle whose connect() returned False or whose fetch from the source
\* failed leaves the connector's last_run as it was.
C7_WatermarkKeptOnFailure ==
    (cyc.done /\ (~cyc.connected \/ cyc.fetchFailed)) =>
        last_run[cyc.agent] = cyc.before

\* C8: a cycle that translated K >= 1 records has published exactly K
\* messages to the raw-events queue when it ends.
C8_PublishedEqualsTranslated ==
    (cyc.done /\ Len(Translated(cyc.native, 1)) >= 1) =>
        cyc.published = Len(Translated(cyc.native, 1))

\* C9: a cycle whose fetch succeeded returns exactly the Canonical Events of
\* the records that translate, in upstream order, with nothing in place of a
\* failed record, and advances the watermark.
C9_RecordIsolation ==
    (cyc.done /\ cyc.connected /\ ~cyc.fetchFailed /\ ~cyc.raisedOut) =>
        /\ cyc.returned = Translated(cyc.native, 1)
        /\ cyc.marked

\* C10: a cycle whose fetch succeeded with zero records sets last_run to the
\* instant read in that cycle and publishes nothing to any queue.
C10_EmptyFetchAdvances ==
    (cyc.done /\ cyc.connected /\ ~cyc.fetchFailed /\ cyc.native = <<>>) =>
        /\ cyc.marked
        /\ last_run[cyc.agent] \in Times
        /\ last_run[cyc.agent] >= cyc.before
        /\ last_run[cyc.agent] <= now
        /\ cyc.returned = <<>>
        /\ cyc.published = 0
        /\ \A q \in QueueValues : ready[q] = <<>>

\* C10 witness: a Splunk cycle fetched zero records and moved last_run off
\* its initial None
C10_Witness ==
    /\ cyc.done
    /\ cyc.agent = "splunk"
    /\ cyc.connected
    /\ ~cyc.fetchFailed
    /\ cyc.native = <<>>
    /\ cyc.before = NoneTime
    /\ last_run["splunk"] # NoneTime

\* C11: every connector cycle calls disconnect() exactly once, after its
\* fetching and translating are over, whether connect() returned False or
\* the cycle ran to its end; and disconnect() on a connector whose connect()
\* has never succeeded does not raise.
C11_DisconnectOncePerCycle ==
    /\ cyc.disconnects <= 1
    /\ pc \in {"fetch", "process", "disconnect"} => cyc.disconnects = 0
    /\ (pc = "after" \/ cyc.done) => cyc.disconnects = 1
    /\ (cyc.disconnects = 1 /\ ~cyc.connected /\ cyc.before = NoneTime) => ~cyc.raisedOut

\* C11 witness: a Wazuh cycle whose first connect() returned False has ended
\* with its one disconnect(), which closed the unused session
C11_Witness ==
    /\ cyc.done
    /\ cyc.agent = "wazuh"
    /\ ~cyc.connected
    /\ cyc.before = NoneTime
    /\ cyc.disconnects = 1
    /\ session["wazuh"] = "closed"

\* C12: each pass of the collection loop runs the cycle of every configured
\* connector exactly once, in order and one at a time, whatever failed in
\* this or an earlier pass; no failure takes the loop out of its pass.
C12_EveryConnectorEveryPass ==
    /\ pc # "crashed"
    /\ pc = "sleep" => ran = AgentOrder
    /\ pc \in {"connect", "fetch", "process", "disconnect", "after"} =>
          /\ ran = SubSeq(AgentOrder, 1, cur - 1)
          /\ pc # "connect" => cyc.agent = AgentOrder[cur] /\ ~cyc.done
    /\ \A a \in Agents : Cardinality({k \in 1..Len(ran) : ran[k] = a}) <= 1

\* C12 witness: a later pass has ended with every connector run although
\* connect() of Splunk has returned False in every pass so far
C12_Witness ==
    /\ pc = "sleep"
    /\ now >= 1
    /\ ran = AgentOrder
    /\ last_run["splunk"] = NoneTime
    /\ last_run["wazuh"] # NoneTime
    /\ session["wazuh"] = "closed"

\* C18: connect() never raises; a cycle whose connect() returned False calls
\* no fetch, holds and returns no events, publishes nothing, raises nothing
\* to the scheduler, and the scheduler goes on with the next connector (or,
\* after the last one, with its sleep and the next test of the stop flag).
C18_ConnectFalseSkipsFetch ==
    /\ ~cyc.connectRaised
    /\ (cyc.agent # "none" /\ ~cyc.connected) =>
          /\ ~cyc.fetched
          /\ cyc.native = <<>>
          /\ logs = <<>>
          /\ processed = <<>>
    /\ (cyc.done /\ ~cyc.connected) =>
          /\ cyc.returned = <<>>
          /\ ~cyc.raisedOut
          /\ cyc.published = 0
          /\ pc \in {"connect", "sleep", "top", "done"}
          /\ ran = <<>> \/ ran[Len(ran)] = cyc.agent

\* C18 witness: the Splunk cycle ended after connect() returned False and the
\* scheduler stands at the connect of the next connector
C18_Witness ==
    /\ cyc.done
    /\ cyc.agent = "splunk"
    /\ ~cyc.connected
    /\ pc = "connect"
    /\ cur = 2

\* ------------------------------------------- claims: translation, taxonomy
Levels == {"critical", "high", "medium", "low"}

CanonicalFields ==
    {"service", "source", "timestamp", "event_type", "severity", "source_ip",
     "destination_ip", "user", "action", "status", "message", "raw"}

\* the events of the last translation call that were made from record k
EventsOf(k) == {j \in DOMAIN call.events : call.origin[j] = k}

\* C13: every Canonical Event a connector produces carries a severity that
\* is one of critical, high, medium, low.
C13_SeverityCanonical ==
    call.kind = "translate" =>
        \A j \in DOMAIN call.events :
            /\ "severity" \in DOMAIN call.events[j]
            /\ call.events[j].severity \in Levels

ByCutPoints(v, c, h, m) ==
    IF v >= c THEN "critical" ELSE IF v >= h THEN "high" ELSE IF v >= m THEN "medium" ELSE "low"

\* C14: the numeric severity mappings are total, with inclusive lower cut
\* points 7 / 4 / 2 on the 0-10 scale and 70 / 40 / 20 on the 0-100 scale
\* (7 and 8.5 give critical, 35 on the 0-100 scale gives medium); values
\* below 0 and above the scale also get one of the four levels.
C14_NumericCutPoints ==
    (call.kind = "map" /\ call.fn \in NumericMaps) =>
        /\ call.value \in Levels
        /\ call.fn = "_map_guardduty_severity" =>
              /\ call.value = ByCutPoints(call.arg, 70, 40, 20)
              /\ call.arg \in {70, 85} => call.value = "critical"
        /\ call.fn = "_map_securityhub_severity" =>
              /\ call.value = ByCutPoints(call.arg, 700, 400, 200)
              /\ call.arg = 350 => call.value = "medium"
        /\ call.arg < 0 => call.value = "low"
        /\ call.arg > 1000 => call.value = "critical"

\* C14 witness: the 0-10 mapping was applied to the cut point 7 itself and
\* gave critical
C14_Witness ==
    /\ call.kind = "map"
    /\ call.fn = "_map_guardduty_severity"
    /\ call.arg = 70
    /\ call.value = "critical"

\* C15: the label mappings of Azure Security Center, Azure Monitor, GCP
\* Security Command Center and GCP Cloud Logging give a label that is a key
\* of the table its table value, and every other input (unknown, other
\* casing, missing) low; the result is always one of the four levels.
C15_LabelLookup ==
    (call.kind = "map" /\ call.fn \in LabelMaps) =>
        LET table == CASE call.fn = "azure._map_security_center_severity" ->
                               azure_security_center_map
                       [] call.fn = "azure._map_monitor_severity" -> azure_monitor_map
                       [] call.fn = "gcp._map_security_center_severity" ->
                               gcp_security_center_map
                       [] OTHER -> gcp_logging_map
        IN  /\ call.value \in Levels
            /\ call.arg \in DOMAIN table => call.value = table[call.arg]
            /\ call.arg \notin DOMAIN table => call.value = "low"
            /\ call.arg \in {"critical", "high", "medium", "error", "warning", None, ""} =>
                  call.value = "low"

\* C15 witness: the Azure Monitor mapping was given the lower-case `error`,
\* which is not the table key `Error`, and gave low
C15_Witness ==
    /\ call.kind = "map"
    /\ call.fn = "azure._map_monitor_severity"
    /\ call.arg = "error"
    /\ call.value = "low"

\* C16: every Canonical Event a connector emits has every canonical field.
C16_AllCanonicalFields ==
    call.kind = "translate" =>
        \A j \in DOMAIN call.events : CanonicalFields \subseteq DOMAIN call.events[j]

\* C17: a native record without a timestamp yields a Canonical Event whose
\* timestamp is the current time, and the records after it yield their
\* events too.
C17_MissingTimestampIsNow ==
    call.kind = "translate" =>
        \A k \in DOMAIN call.natives :
            ~call.natives[k].hasTime =>
                /\ \E j \in EventsOf(k) :
                      /\ "timestamp" \in DOMAIN call.events[j]
                      /\ call.events[j].timestamp = isoformat(call.t)
                /\ \A k2 \in DOMAIN call.natives :
                      (k2 > k /\ call.natives[k2].admit) => EventsOf(k2) # {}

\* ------------------------------------------------- claims: analysis stage
\* C19: analyze_security_event always returns a result with exactly the keys
\* severity, impact, recommendations, iocs, and when a step inside it fails
\* (the payload cannot be formatted, the enrichment call fails) the result
\* is the fixed fallback.
C19_AnalysisNeverRaises ==
    call.kind = "analyze" =>
        /\ DOMAIN call.value = {"severity", "impact", "recommendations", "iocs"}
        /\ (call.llm = "error" \/ call.event.type # "dict") =>
              call.value = [severity |-> "unknown", impact |-> "Error during analysis",
                            recommendations |-> <<"Investigate analysis error">>,
                            iocs |-> <<>>]

\* C19 witness: the enrichment call failed for a well-formed event and the
\* call returned the fallback
C19_Witness ==
    /\ call.kind = "analyze"
    /\ call.event.type = "dict"
    /\ call.llm = "error"
    /\ call.value.severity = "unknown"
    /\ call.value.iocs = <<>>

\* C20: every handling of a raw event by the Analysis Stage has put exactly
\* one {event_id, analysis} message on the analysis-results queue.
C20_OneResultPerHandling ==
    \A i \in RawEvents : hist[i].results = hist[i].handled

\* ------------------------------------------------------ claims: notification
\* the list send_alert works through: the default pair when none was given
Requested(c) ==
    IF c.channels.isNone \/ c.channels.list = <<>>
    THEN default_channels ELSE c.channels.list

\* C22: send_alert attempts every channel of the list that it has a sender
\* for exactly once, in list order, whether or not an earlier channel raised
\* (an attempt fails exactly when its own channel fails), and it never raises
C22_EveryChannelAttempted ==
    call.kind = "send_alert" =>
        LET want == SelectSeq(Requested(call), LAMBDA c : c \in supported)
            got  == call.value.attempts
        IN  /\ ~call.value.raised
            /\ Len(got) = Len(want)
            /\ \A j \in 1..Len(got) :
                /\ got[j].channel = want[j]
                /\ got[j].ok = (want[j] \notin call.fails)

\* slack is first and fails, email is second and is delivered
C22_Witness ==
    /\ call.kind = "send_alert"
    /\ call.channels = [isNone |-> FALSE, list |-> <<"slack", "email">>]
    /\ call.fails = {"slack"}
    /\ call.value.attempts = <<[channel |-> "slack", ok |-> FALSE],
                               [channel |-> "email", ok |-> TRUE]>>

\* C21: process_event builds an Alert and calls send_alert exactly when the
\* analysis severity is critical or high; for any other severity, the
\* fallback unknown included, there is no alert and no channel attempt.  The
\* Alert carries the analysis severity, impact and recommendations and the
\* event's source
C21_AlertIffCriticalOrHigh ==
    call.kind = "process" =>
        LET a == call.analysis
            r == call.value
        IN  /\ (r.alerts # <<>>) <=> (a.severity \in {"critical", "high"})
            /\ r.alerted <=> (r.alerts # <<>>)
            /\ r.alerts = <<>> =>
                /\ call.attempts = <<>>
                /\ \A k \in 1..Len(r.steps) : r.steps[k] # "send_alert"
            /\ r.alerts # <<>> =>
                /\ Len(r.alerts) = 1
                /\ r.alerts[1].severity = a.severity
                /\ r.alerts[1].impact = a.impact
                /\ r.alerts[1].recommendations = a.recommendations
                /\ r.alerts[1].source =
                       DictGet(call.event.value, "source", "Unknown")
                /\ call.attempts # <<>>

\* a high event from the source "siem" is alerted on both channels
C21_Witness ==
    /\ call.kind = "process"
    /\ call.analysis.severity = "high"
    /\ call.value.alerts # <<>>
    /\ call.value.alerts[1].source = "siem"
    /\ Len(call.attempts) = 2

\* C30: for an event whose analysis severity is critical or high the publish
\* of the analysis result comes before the alert fan-out
C30_PublishBeforeFanOut ==
    (call.kind = "process" /\ call.analysis.severity \in {"critical", "high"}
        /\ call.event.type = "dict") =>
        \E i, j \in 1..Len(call.value.steps) :
            /\ call.value.steps[i] = "publish"
            /\ call.value.steps[j] = "send_alert"
            /\ i < j

\* ------------------------------------------------------ claims: consumer
\* C24: the consumer has at most one delivered-but-unacknowledged message at
\* any time, and a message is delivered to it only when no earlier delivery
\* is still waiting for its ack or nack
C24_OneUnackedAtATime ==
    /\ [](Cardinality(unacked) <= 1)
    /\ [][TotalDeliveries' > TotalDeliveries =>
            (unacked = {} /\ Cardinality(unacked') = 1)]_vars

\* one message has been acknowledged, the next is in hand, nothing else is
C24_Witness ==
    /\ \E i \in MsgIds : hist[i].acks = 1 /\ ~InFlight(i)
    /\ Cardinality(unacked) = 1
    /\ TotalDeliveries = 2

C26_BusFailureRaised ==
    [][/\ lastCall'.op = "publish" =>
            IF lastCall'.raised = "none"
            THEN /\ nextId' = nextId + 1
                 /\ Len(ready'[lastCall'.queue]) = Len(ready[lastCall'.queue]) + 1
            ELSE /\ ready' = ready
                 /\ nextId' = nextId
       /\ lastCall'.op = "consume" =>
            IF lastCall'.raised = "none"
            THEN cstate' = "waiting" /\ cqueue' = lastCall'.queue
            ELSE cstate' = "stopped"]_vars

\* a publish to a declared queue found the connection gone: the caller got
\* the exception and nothing was enqueued
C26_Witness ==
    /\ lastCall.op = "publish"
    /\ lastCall.queue = queues.logs
    /\ lastCall.raised = "AMQPError"
    /\ nextId = 1

\* ------------------------------------------------ claims: collection cycle
\* C27: the window handed to the connector starts at the connector's last_run
\* when that is set, otherwise at now minus the default interval, and ends
\* at now
C27_WindowStartsAtWatermark ==
    cyc.fetched =>
        /\ cyc.window.end = cyc.at
        /\ cyc.window.start =
               IF cyc.before # NoneTime THEN cyc.before
               ELSE cyc.at - default_interval(cyc.agent)

\* C28: after a cycle that completes without connector-level failure,
\* last_run is the end of the window fetched in that cycle
C28_WatermarkIsWindowEnd ==
    (cyc.done /\ cyc.connected /\ ~cyc.fetchFailed /\ ~cyc.raisedOut) =>
        last_run[cyc.agent] = cyc.window.end

\* C29: the steps of a cycle run in the order connect, fetch, translate,
\* publish; fetch only after connect returned True, translate only after
\* fetch; a step that fails is the last one of its cycle but for disconnect
C29_StepOrder ==
    LET order == <<"connect", "fetch", "translate", "publish">>
        n == Len(cyc.steps)
    IN  /\ n <= Len(order) /\ cyc.steps = SubSeq(order, 1, n)
        /\ n >= 2 => cyc.connected
        /\ n >= 3 => cyc.fetched
        /\ cyc.done =>
            /\ cyc.disconnects = 1
            /\ ~cyc.connected => n = 1
            /\ (cyc.connected /\ cyc.fetchFailed) => n = 2
            /\ (cyc.connected /\ ~cyc.fetchFailed /\ ~cyc.raisedOut) => n = 4

\* C23: once stop() has cleared the flag it stays cleared and the loop begins
\* no new pass; the pass in flight runs to its end, every connector it
\* visits being disconnected by its own cycle, and only then does the loop
\* exit; under fairness the loop does exit after stop()
C23_CooperativeStop ==
    /\ [][~running => ~running']_vars
    /\ [][~running => ~(pc = "top" /\ pc' = "connect")]_vars
    /\ [][(~running /\ pc' = "done") => pc \in {"top", "done"}]_vars
    /\ [](pc = "done" =>
            /\ ~running
            /\ ran \in {<<>>, AgentOrder}
            /\ ran = AgentOrder => (cyc.done /\ cyc.disconnects = 1))
    /\ []((~running /\ pc = "after") => cyc.disconnects = 1)
    /\ (~running) ~> (pc = "done")

\* stop() came during a pass: the flag is down, every session had been
\* released by stop(), and the pass has gone on to connect its last connector
C23_Witness ==
    /\ ~running
    /\ pc = "fetch"
    /\ cur = Len(AgentOrder)
    /\ session[Agent] = "open"
    /\ ran = SubSeq(AgentOrder, 1, cur - 1)

\* ------------------------------------------------ claims: response parser
\* the lines of a response as the loop sees them: stripped, blank ones left out
Seen(response) ==
    SelectSeq([k \in 1..Len(response) |-> strip(response[k])],
              LAMBDA l : l # <<>>)

IsSeverityLine(l) == contains(l, "severity")

\* C31: the parsed severity is the trimmed text after the final colon of the
\* last severity line of the response, whatever section is active there;
\* "unknown" when the response has no severity line
C31_SeverityFromLastLine ==
    call.kind = "parse" =>
        LET seen == Seen(call.response)
            sev  == {k \in 1..Len(seen) : IsSeverityLine(seen[k])}
        IN  IF sev = {} THEN call.value.severity = "unknown"
            ELSE LET last == seen[CHOOSE k \in sev : \A j \in sev : k >= j]
                     colons == {k \in 1..Len(last) : last[k] = ":"}
                     final == IF colons = {} THEN 0
                              ELSE CHOOSE k \in colons : \A j \in colons : k >= j
                 IN  call.value.severity =
                         text(strip(SubSeq(last, final + 1, Len(last))))

\* ` Severity: High ` under an impact header, after an earlier severity line
\* with two colons: the result is "High"
C31_Witness ==
    /\ call.kind = "parse"
    /\ call.response = << <<"Severity", ":", "score", ":", "high">>,
                          <<"Impact", ":">>,
                          <<" ", "Severity", ":", " ", "High", " ">> >>
    /\ call.value.severity = "High"

\* the kind of a line by first match in the order severity, impact,
\* recommend, indicator, content
KindByPriority(l) ==
    IF contains(l, "severity") THEN "severity"
    ELSE IF contains(l, "impact") THEN "impact"
    ELSE IF contains(l, "recommend") THEN "recommendations"
    ELSE IF contains(l, "indicator") THEN "iocs"
    ELSE "content"

\* the section that is active at line k when the lines of the kinds in
\* `headers` switch it: the kind of the last such line before k
SectionAt(seen, k, headers) ==
    LET before == {j \in 1..(k - 1) : KindByPriority(seen[j]) \in headers}
    IN  IF before = {} THEN None
        ELSE KindByPriority(seen[CHOOSE j \in before : \A i \in before : j >= i])

\* the content lines that belong to section sec, in order
Entries(seen, headers, sec) ==
    LET idx == SelectSeq([k \in 1..Len(seen) |-> k],
                         LAMBDA k : /\ KindByPriority(seen[k]) = "content"
                                    /\ SectionAt(seen, k, headers) = sec)
    IN  [j \in 1..Len(idx) |-> text(seen[idx[j]])]

RECURSIVE Spaced(_)
Spaced(entries) ==
    IF entries = <<>> THEN "" ELSE Head(entries) \o " " \o Spaced(Tail(entries))

\* C32: every line with a section keyword (severity, impact, recommend,
\* indicator) switches the active section, and a content line goes to the
\* accumulator of the section active at that point; a line that follows a
\* severity line does not go to the section that was active before it
C32_KeywordLineSwitchesSection ==
    call.kind = "parse" =>
        LET seen == Seen(call.response)
            headers == {"severity", "impact", "recommendations", "iocs"}
        IN  /\ call.value.impact = Spaced(Entries(seen, headers, "impact"))
            /\ call.value.recommendations =
                   Entries(seen, headers, "recommendations")
            /\ call.value.iocs = Entries(seen, headers, "iocs")

\* C39: each non-blank line is of exactly one kind, the first that matches in
\* the order severity, impact, recommend, indicator, content; header lines
\* give no text to impact, recommendations or iocs, and content lines before
\* the first impact / recommend / indicator header are dropped
C39_FirstMatchClassification ==
    call.kind = "parse" =>
        LET seen == Seen(call.response)
            headers == {"impact", "recommendations", "iocs"}
        IN  /\ call.value.impact = Spaced(Entries(seen, headers, "impact"))
            /\ call.value.recommendations =
                   Entries(seen, headers, "recommendations")
            /\ call.value.iocs = Entries(seen, headers, "iocs")

\* a content line before any header is dropped, a line with the keywords
\* recommend and indicator opens the recommendations only and gives no text
C39_Witness ==
    /\ call.kind = "parse"
    /\ call.response = << <<" ", "x", " ">>,
                          <<"Recommendations", " ", "Indicators">>,
                          <<"y", ":", "z">> >>
    /\ call.value.recommendations = <<"y:z">>
    /\ call.value.iocs = <<>>
    /\ call.value.impact = ""

\* C35: the alert decision compares the parsed severity, which is the model's
\* text as it stands, with exactly "critical" and "high": a response whose
\* deciding severity line is `Severity: High` or `Severity: Critical` parses
\* to "High" / "Critical" and no alert goes out
C35_CaseSensitiveDecision ==
    call.kind = "enrich" =>
        LET seen == Seen(call.response)
            sev  == {k \in 1..Len(seen) : IsSeverityLine(seen[k])}
            last == IF sev = {} THEN <<>>
                    ELSE seen[CHOOSE k \in sev : \A j \in sev : k >= j]
        IN  /\ (call.value.alerts # <<>>) <=>
                   (call.parsed.severity \in {"critical", "high"})
            /\ last = <<"Severity", ":", " ", "High">> =>
                   (call.parsed.severity = "High" /\ call.value.alerts = <<>>)
            /\ last = <<"Severity", ":", " ", "Critical">> =>
                   (call.parsed.severity = "Critical" /\ call.value.alerts = <<>>)
            /\ last = <<"severity", ":", "critical">> =>
                   (call.parsed.severity = "critical" /\ call.value.alerts # <<>>)

\* the response ` Severity: High `: parsed as "High", handled without alert
C35_Witness ==
    /\ call.kind = "enrich"
    /\ call.response = << <<" ", "Severity", ":", " ", "High", " ">> >>
    /\ call.parsed.severity = "High"
    /\ call.value.alerts = <<>>
    /\ call.value.steps = <<"analyze", "publish">>

\* C38: with channels None or an empty list send_alert attempts slack, then
\* email; a name other than slack or email gets no attempt and raises
\* nothing, and the other entries of the list are attempted as if it were
\* not there
C38_DefaultAndUnknownChannels ==
    call.kind = "send_alert" =>
        LET got   == call.value.attempts
            names == [j \in 1..Len(got) |-> got[j].channel]
            known == SelectSeq(call.channels.list, LAMBDA c : c \in {"slack", "email"})
        IN  /\ ~call.value.raised
            /\ \A j \in 1..Len(got) : got[j].channel \in {"slack", "email"}
            /\ (call.channels.isNone \/ call.channels.list = <<>>) =>
                   names = <<"slack", "email">>
            /\ call.channels.list # <<>> =>
                   /\ names = known
                   /\ \A j \in 1..Len(got) : got[j].ok = (known[j] \notin call.fails)

\* the list <<sms, email>>: one attempt, on email, delivered
C38_Witness ==
    /\ call.kind = "send_alert"
    /\ call.channels = [isNone |-> FALSE, list |-> <<"sms", "email">>]
    /\ call.fails = {}
    /\ call.value.attempts = <<[channel |-> "email", ok |-> TRUE]>>

\* a message on the raw-events queue, or in the consumer's hand, whose body
\* is not valid JSON
Poison(i) ==
    \/ \E k \in 1..Len(ready[queues.logs]) :
          /\ ready[queues.logs][k].id = i
          /\ ready[queues.logs][k].body.json = "invalid"
    \/ \E m \in unacked : m.id = i /\ m.body.json = "invalid"

\* C36: a message whose handling raises on every delivery is nacked and
\* requeued each time and never acknowledged or removed; nothing bounds its
\* redelivery: a registered consumer is handed it again and again (in the
\* model: until the delivery budget MaxDeliveries is used up)
C36_PoisonRedeliveredForever ==
    /\ [][\A i \in MsgIds : Poison(i) => Poison(i)']_vars
    /\ [](\A i \in MsgIds : Poison(i) =>
            /\ hist[i].acks = 0
            /\ hist[i].handled = 0
            /\ hist[i].deliveries =
                   hist[i].nacks + hist[i].returned + (IF InFlight(i) THEN 1 ELSE 0))
    /\ (\E i \in MsgIds : Poison(i)) ~> (TotalDeliveries = MaxDeliveries)

\* the message waiting at the start is not JSON: it has used the whole
\* delivery budget, was nacked each time, and is back on the queue
C36_Witness ==
    /\ Poison(Backlog)
    /\ hist[Backlog].nacks = MaxDeliveries
    /\ hist[Backlog].acks = 0
    /\ InReady(Backlog, queues.logs)

\* ------------------------------------------------- claims: stop and cleanup
\* C33: stop() never releases the session of a connector that is between
\* its successful connect and the end of its fetch / translate: a connector
\* that is fetching or translating holds the session its connect opened
C33_NoFetchOnReleasedSession ==
    pc \in {"fetch", "process"} => session[Agent] = "open"

\* C34: a cycle that advanced last_run hands the events it translated to the
\* scheduler, also when disconnect() raises in the cleanup
C34_MarkedImpliesReturned ==
    (pc = "after" /\ cyc.marked) => cyc.returned = processed

\* C37: get_status() leaves last_run as it was and fetches nothing; it calls
\* connect() and never disconnect(), so after a get_status() whose connect
\* succeeded the connector holds an open session
C37_StatusLeavesSessionOpen ==
    call.kind = "status" =>
        /\ call.after.last_run = call.last_run
        /\ call.after.value.last_run = call.last_run
        /\ call.after.calls = <<"connect">>
        /\ call.after.value.connected = call.ok
        /\ call.ok => call.after.session = "open"

\* a Splunk connector that never ran: get_status() reports connected and
\* leaves the session open
C37_Witness ==
    /\ call.kind = "status"
    /\ call.agent = "splunk"
    /\ call.last_run = NoneTime
    /\ call.session = "none"
    /\ call.after.value.connected
    /\ call.after.session = "open"

====
